---------------------------- MODULE Spec2Model ----------------------------
(***************************************************************************)
(* A model of the drone routing core: the navigation graph built from map  *)
(* data (common/graph.py, common/geometry.py), its battery-constrained     *)
(* transfer search, and the exact Branch & Bound solver                    *)
(* (exact_bb/branch_and_bound.py).                                         *)
(*                                                                         *)
(* Numbers are integers.  Coordinates are drawn from integer point sets,   *)
(* on which every comparison against EPSILON = 1e-9 in geometry.py agrees  *)
(* with the exact comparison; edge weights of directly constructed graphs  *)
(* are small naturals.                                                     *)
(***************************************************************************)
EXTENDS Integers, Sequences, FiniteSets, TLC

VARIABLES
    graph,      \* the Graph object: max_battery, clients, recharges, hub, edges
    tr,         \* the frame of one Graph.transfer call
    solver,     \* the BranchAndBoundSolver object and its pending _bb calls
    build,      \* the frame of one build_from_json call
    dm,         \* inputs and outputs of the dominance comparison
    geo         \* the arguments and the result of one geometry call

vars == <<graph, tr, solver, build, dm, geo>>

\* The value of a variable that plays no part in the specification at hand.
Idle == [pc |-> "idle"]

\* Python's None (also: no result, no entry).
None == << >>

(***************************************************************************)
(* Bounds of the model.                                                    *)
(***************************************************************************)
\* Largest distance / battery cost of an edge of a directly constructed graph.
MaxWeight == 1
\* Battery capacity of the directly constructed graphs (max_battery).
MaxBattery == 2

(***************************************************************************)
(* Geometry (common/geometry.py).  A Point is <<x, y>>, or <<x, y, o>>     *)
(* where o names the Point object (for calls that compare Points); a       *)
(* Segment is <<a, b>>; a Polygon is the record of its vertex list and     *)
(* bounding box.                                                           *)
(***************************************************************************)
Abs(n) == IF n < 0 THEN -n ELSE n
Min2(a, b) == IF a <= b THEN a ELSE b
Max2(a, b) == IF a >= b THEN a ELSE b
SeqMin(xs) == CHOOSE m \in {xs[i] : i \in 1..Len(xs)} :
                  \A i \in 1..Len(xs) : m <= xs[i]
SeqMax(xs) == CHOOSE m \in {xs[i] : i \in 1..Len(xs)} :
                  \A i \in 1..Len(xs) : m >= xs[i]

\* math.sqrt on the perfect squares (the only arguments the model's point
\* sets produce; there is no value for any other argument).
Sqrt(n) == CHOOSE r \in 0..n : r * r = n

\* The taxicab length of the segment in place of the Euclidean one.
distance_Manhattan(a, b) == Abs(a[1] - b[1]) + Abs(a[2] - b[2])

\* distance(a, b)
distance(a, b) ==
    Sqrt((a[1] - b[1]) * (a[1] - b[1]) + (a[2] - b[2]) * (a[2] - b[2]))

\* A vertex check that accepts two vertices.
PolygonRaises_BelowTwo(vertices) == Len(vertices) < 2

\* Polygon.__init__ raises ValueError on fewer than 3 vertices.
PolygonRaises(vertices) == Len(vertices) < 3

\* Polygon.__init__: the vertex list and its bounding box
\* <<min x, min y, max x, max y>>.
Polygon(vertices) ==
    [vertices |-> vertices,
     bound_box |-> <<SeqMin([i \in 1..Len(vertices) |-> vertices[i][1]]),
                     SeqMin([i \in 1..Len(vertices) |-> vertices[i][2]]),
                     SeqMax([i \in 1..Len(vertices) |-> vertices[i][1]]),
                     SeqMax([i \in 1..Len(vertices) |-> vertices[i][2]])>>]

\* Polygon.edges: consecutive vertex pairs, wrapping.
PolygonEdges(poly) ==
    LET n == Len(poly.vertices)
    IN  [i \in 1..n |-> <<poly.vertices[i], poly.vertices[(i % n) + 1]>>]

\* Coordinates are integers that count steps of a lattice: steps of 1, or,
\* in the states of the geometry calls marked fine, steps of 2^-16, on
\* which the products and differences of _turn are exact in binary floating
\* point.  EPSILON = 1e-9 is below one step of either lattice, so
\* tolerances on coordinates vanish.  A turn is a number of squared steps:
\* on the unit lattice abs(t) <= EPSILON is t = 0; on the fine lattice
\* t * 2^-32 <= 1e-9 is t <= FineEpsilon (4 * 2^-32 is 9.3e-10 and
\* 5 * 2^-32 is 1.16e-9).
FineEpsilon == 4

EPSILON == IF geo.pc # "idle" /\ geo.fine THEN FineEpsilon ELSE 0

\* _turn(a, b, c): the cross product of b - a and c - a.
turn(a, b, c) ==
    ((b[1] - a[1]) * (c[2] - a[2])) - ((b[2] - a[2]) * (c[1] - a[1]))

\* _on_segment(a, b, c): c within the bounding box of a and b.  EPSILON is
\* below one step of either lattice, so x - EPSILON <= y is x <= y.
on_segment(a, b, c) ==
    /\ Min2(a[1], b[1]) <= c[1] /\ c[1] <= Max2(a[1], b[1])
    /\ Min2(a[2], b[2]) <= c[2] /\ c[2] <= Max2(a[2], b[2])

\* p != q on Point objects: Point defines no __eq__, so != compares object
\* identity.  It is evaluated only with include_endpoints false.
PointNe(p, q) == p[3] # q[3]

\* segments_intersect(segment_a, segment_b, include_endpoints)
segments_intersect(segment_a, segment_b, include_endpoints) ==
    LET point_a == segment_a[1]
        point_b == segment_a[2]
        point_c == segment_b[1]
        point_d == segment_b[2]
        turn_abc == turn(point_a, point_b, point_c)
        turn_abd == turn(point_a, point_b, point_d)
        turn_cda == turn(point_c, point_d, point_a)
        turn_cdb == turn(point_c, point_d, point_b)
    IN  IF /\ \/ (turn_abc > EPSILON /\ turn_abd < -EPSILON)
              \/ (turn_abc < -EPSILON /\ turn_abd > EPSILON)
           /\ \/ (turn_cda > EPSILON /\ turn_cdb < -EPSILON)
              \/ (turn_cda < -EPSILON /\ turn_cdb > EPSILON)
        THEN TRUE
        ELSE IF Abs(turn_abc) <= EPSILON /\ on_segment(point_a, point_b, point_c)
        THEN include_endpoints
                \/ (PointNe(point_c, point_a) /\ PointNe(point_c, point_b))
        ELSE IF Abs(turn_abd) <= EPSILON /\ on_segment(point_a, point_b, point_d)
        THEN include_endpoints
                \/ (PointNe(point_d, point_a) /\ PointNe(point_d, point_b))
        ELSE IF Abs(turn_cda) <= EPSILON /\ on_segment(point_c, point_d, point_a)
        THEN include_endpoints
                \/ (PointNe(point_a, point_c) /\ PointNe(point_a, point_d))
        ELSE IF Abs(turn_cdb) <= EPSILON /\ on_segment(point_c, point_d, point_b)
        THEN include_endpoints
                \/ (PointNe(point_b, point_c) /\ PointNe(point_b, point_d))
        ELSE FALSE

\* _bbox_intersect(bound_box_1, bound_box_2)
bbox_intersect(bound_box_1, bound_box_2) ==
    LET condition_1 == bound_box_1[3] < bound_box_2[1]
        condition_2 == bound_box_2[3] < bound_box_1[1]
        condition_3 == bound_box_1[4] < bound_box_2[2]
        condition_4 == bound_box_2[4] < bound_box_1[2]
    IN  ~(condition_1 \/ condition_2 \/ condition_3 \/ condition_4)

\* segment_intersects_polygon(segment, polygon, include_boundary)
segment_intersects_polygon(segment, polygon, include_boundary) ==
    LET segment_bound_box ==
            <<Min2(segment[1][1], segment[2][1]), Min2(segment[1][2], segment[2][2]),
              Max2(segment[1][1], segment[2][1]), Max2(segment[1][2], segment[2][2])>>
    IN  IF ~bbox_intersect(segment_bound_box, polygon.bound_box)
        THEN FALSE
        ELSE \E i \in 1..Len(polygon.vertices) :
                segments_intersect(segment, PolygonEdges(polygon)[i],
                                   include_boundary)

\* The on-edge test of point_in_polygon: abs(_turn) <= EPSILON and
\* _on_segment, for some edge.
OnSomeEdge(a, p) ==
    \E i \in 1..Len(p.vertices) :
        LET edge == PolygonEdges(p)[i]
        IN  Abs(turn(edge[1], edge[2], a)) <= EPSILON
                /\ on_segment(edge[1], edge[2], a)

\* The ray test of point_in_polygon for the edge point_a -> point_b: the
\* edge straddles the horizontal through a and
\*   point_a.x + (a.y - point_a.y) * (point_b.x - point_a.x)
\*                                 / (point_b.y - point_a.y) > a.x,
\* compared after multiplying by the denominator.  (The quotient is
\* computed in floating point; for a point off the edge the exact value
\* differs from a.x by at least 1 / |point_b.y - point_a.y|.)
RayCrosses(a, point_a, point_b) ==
    LET den == point_b[2] - point_a[2]
        num == (a[2] - point_a[2]) * (point_b[1] - point_a[1])
    IN  /\ (point_a[2] > a[2]) # (point_b[2] > a[2])
        /\ IF den > 0 THEN (point_a[1] - a[1]) * den + num > 0
                      ELSE (point_a[1] - a[1]) * den + num < 0

\* point_in_polygon(a, p, include_boundary)
point_in_polygon(a, p, include_boundary) ==
    LET n == Len(p.vertices)
        crossings == {i \in 1..n :
                        RayCrosses(a, p.vertices[i], p.vertices[(i % n) + 1])}
    IN  IF \/ a[1] < p.bound_box[1] \/ a[1] > p.bound_box[3]
           \/ a[2] < p.bound_box[2] \/ a[2] > p.bound_box[4]
        THEN FALSE
        ELSE IF OnSomeEdge(a, p)
        THEN include_boundary
        ELSE Cardinality(crossings) % 2 = 1

\* segment_crosses_polygon(segment, polygon)
segment_crosses_polygon(segment, polygon) ==
    LET a_inside == point_in_polygon(segment[1], polygon, FALSE)
        b_inside == point_in_polygon(segment[2], polygon, FALSE)
        count == Cardinality({i \in 1..Len(polygon.vertices) :
                    segments_intersect(segment, PolygonEdges(polygon)[i], TRUE)})
    IN  IF a_inside # b_inside THEN TRUE ELSE count >= 2

(***************************************************************************)
(* Graph (common/graph.py)                                                 *)
(***************************************************************************)

\* Graph.is_recharge: membership in the recharges list.
is_recharge(g, node) == \E i \in 1..Len(g.recharges) : g.recharges[i] = node

\* self.edges.get(u, {}): the adjacency map of u (a function from the
\* neighbours of u to <<distance, risk, battery cost>>).
Adjacent(g, u) == IF u \in DOMAIN g.edges THEN g.edges[u] ELSE << >>

\* Graph.edge_cost: the weight tuple of an edge, or None.
edge_cost(g, a, b) ==
    IF b \in DOMAIN Adjacent(g, a) THEN Adjacent(g, a)[b] ELSE None

(***************************************************************************)
(* Graph.transfer: a best-first search over tuples                         *)
(*   <<recharges_used, distance_acc, risk_acc, node, battery>>             *)
(* held in a heap; heappop returns the least tuple in Python's             *)
(* lexicographic tuple order.                                              *)
(***************************************************************************)

\* Python's tuple comparison a < b on the 5-tuples of the queue.
RECURSIVE TupleLessFrom(_, _, _)
TupleLessFrom(a, b, i) ==
    IF i > Len(a) THEN FALSE
    ELSE IF a[i] < b[i] THEN TRUE
    ELSE IF a[i] > b[i] THEN FALSE
    ELSE TupleLessFrom(a, b, i + 1)

\* A comparison that ranks the accumulated distance before the recharges.
TupleLess_DistanceFirst(a, b) ==
    TupleLessFrom(<<a[2], a[1], a[3], a[4], a[5]>>,
                  <<b[2], b[1], b[3], b[4], b[5]>>, 1)

TupleLess(a, b) == TupleLessFrom(a, b, 1)

\* heapq.heappush: the heap is kept as the ascending sequence of its entries.
heappush(q, e) ==
    LET k == Cardinality({i \in 1..Len(q) : ~TupleLess(e, q[i])})
    IN  SubSeq(q, 1, k) \o <<e>> \o SubSeq(q, k + 1, Len(q))

\* heapq.heappop: the least entry ...
heappop_entry(q) == Head(q)

\* A read of the least entry that leaves it in the heap.
heappop_peek(q) == q

\* ... and the heap without it.
heappop_rest(q) == Tail(q)

RECURSIVE PushAll(_, _)
PushAll(q, es) ==
    IF es = {} THEN q
    ELSE LET e == CHOOSE x \in es : TRUE
         IN  PushAll(heappush(q, e), es \ {e})

\* An arrival that follows every edge, whatever the battery held.
Arrive_Unchecked(g, e, v) ==
    LET w == Adjacent(g, e[4])[v]
        new_recharges_used ==
            IF is_recharge(g, v) /\ v # g.hub THEN e[1] + 1 ELSE e[1]
        new_best_batt ==
            IF is_recharge(g, v) THEN g.max_battery ELSE e[5] - w[3]
    IN  <<new_recharges_used, e[2] + w[1], e[3] + w[2], v, new_best_batt>>

\* An arrival that never resets the battery at a recharge node.
Arrive_NoReset(g, e, v) ==
    LET w == Adjacent(g, e[4])[v]
        new_recharges_used ==
            IF is_recharge(g, v) /\ v # g.hub THEN e[1] + 1 ELSE e[1]
    IN  IF w[3] > e[5] THEN None
        ELSE <<new_recharges_used, e[2] + w[1], e[3] + w[2], v, e[5] - w[3]>>

\* The entry pushed for neighbour v when the popped entry is e (the body of
\* the for loop of transfer); None when the edge costs more than the battery.
Arrive(g, e, v) ==
    LET w == Adjacent(g, e[4])[v]
        batt_cost == w[3]
        new_recharges_used ==
            IF is_recharge(g, v) /\ v # g.hub THEN e[1] + 1 ELSE e[1]
        new_best_batt ==
            IF is_recharge(g, v) THEN g.max_battery ELSE e[5] - batt_cost
    IN  IF batt_cost > e[5] THEN None
        ELSE <<new_recharges_used, e[2] + w[1], e[3] + w[2], v, new_best_batt>>

\* The entries pushed when e is expanded.
Expand(g, e) ==
    {Arrive(g, e, v) :
        v \in {u \in DOMAIN Adjacent(g, e[4]) : Arrive(g, e, u) # None}}

\* A cap that already abandons entries using every recharge node.
OverCap_AtCap(g, e) == e[1] >= Len(g.recharges)

\* The cap on popped entries: more counted stops than recharge nodes.
OverCap(g, e) == e[1] > Len(g.recharges)

\* A closed-set test that lets a state with the recorded battery through.
Stale_Strict(best, e) ==
    LET key == <<e[4], e[1]>>
    IN  key \in DOMAIN best /\ best[key] > e[5]

\* The closed-set test on the key (node, recharges_used).
Stale(best, e) ==
    LET key == <<e[4], e[1]>>
    IN  key \in DOMAIN best /\ best[key] >= e[5]

\* The frame of a transfer call at its first loop test.
transfer_enter(start, goal, battery_left) ==
    [pc |-> "loop", start |-> start, goal |-> goal, battery_left |-> battery_left,
     priority_queue |-> <<<<0, 0, 0, start, battery_left>>>>,
     best_battery |-> << >>, popped |-> None, pushed |-> {}, expanded |-> FALSE,
     result |-> None]

\* One iteration of the while loop of transfer (or its exit).
transfer_step(g, f) ==
    IF f.priority_queue = << >>
    THEN [f EXCEPT !.pc = "done", !.result = None, !.popped = None,
                   !.pushed = {}, !.expanded = FALSE]
    ELSE LET e == heappop_entry(f.priority_queue)
             rest == heappop_rest(f.priority_queue)
             key == <<e[4], e[1]>>
         IN  IF OverCap(g, e)
             THEN [f EXCEPT !.priority_queue = rest, !.popped = e,
                            !.pushed = {}, !.expanded = FALSE]
             ELSE IF e[4] = f.goal
             THEN [f EXCEPT !.pc = "done", !.priority_queue = rest, !.popped = e,
                            !.pushed = {}, !.expanded = FALSE,
                            !.result = <<e[2], e[3], e[1], e[5]>>]
             ELSE IF Stale(f.best_battery, e)
             THEN [f EXCEPT !.priority_queue = rest, !.popped = e,
                            !.pushed = {}, !.expanded = FALSE]
             ELSE [f EXCEPT !.priority_queue = PushAll(rest, Expand(g, e)),
                            !.popped = e, !.pushed = Expand(g, e),
                            !.expanded = TRUE,
                            !.best_battery =
                                [k \in DOMAIN f.best_battery \cup {key} |->
                                    IF k = key THEN e[5] ELSE f.best_battery[k]]]

\* The whole call: the loop run to its return.
RECURSIVE transfer_run(_, _)
transfer_run(g, f) ==
    IF f.pc = "done" THEN f.result ELSE transfer_run(g, transfer_step(g, f))

transfer(g, start, goal, battery_left) ==
    transfer_run(g, transfer_enter(start, goal, battery_left))

(***************************************************************************)
(* BranchAndBoundSolver (exact_bb/branch_and_bound.py).  A cost is         *)
(* <<distance, risk, recharges>>; a frontier entry is <<cost, battery>>;   *)
(* a solution is <<order, cost>>.  self.pareto maps a key                  *)
(* <<last_node, visited>> to its frontier list.                            *)
(***************************************************************************)

\* The comparison without its strict clause.
dominates_NonStrict(current_cost, current_battery, new_cost, battery_left) ==
    /\ current_cost[1] <= new_cost[1]
    /\ current_cost[2] <= new_cost[2]
    /\ current_cost[3] <= new_cost[3]
    /\ current_battery >= battery_left

\* The comparison written out in _is_dominated and twice in
\* _register_pareto: (current_cost, current_battery) dominates
\* (new_cost, battery_left).
dominates(current_cost, current_battery, new_cost, battery_left) ==
    /\ current_cost[1] <= new_cost[1]
    /\ current_cost[2] <= new_cost[2]
    /\ current_cost[3] <= new_cost[3]
    /\ current_battery >= battery_left
    /\ \/ current_cost[1] < new_cost[1]
       \/ current_cost[2] < new_cost[2]
       \/ current_cost[3] < new_cost[3]
       \/ current_battery > battery_left

\* self.pareto.get(key): the frontier of a key, empty when there is none.
Frontier(pareto, key) == IF key \in DOMAIN pareto THEN pareto[key] ELSE << >>

\* _is_dominated
is_dominated(pareto, last_node, visited, cost, battery_left) ==
    LET pareto_frontier == Frontier(pareto, <<last_node, visited>>)
    IN  \E i \in 1..Len(pareto_frontier) :
            dominates(pareto_frontier[i][1], pareto_frontier[i][2],
                      cost, battery_left)

\* A registration that appends the state and removes nothing.
register_pareto_KeepAll(pareto, last_node, visited, cost, battery_left) ==
    LET key == <<last_node, visited>>
    IN  [k \in DOMAIN pareto \cup {key} |->
            IF k = key THEN Append(Frontier(pareto, key), <<cost, battery_left>>)
            ELSE pareto[k]]

\* _register_pareto: the map after the call.
register_pareto(pareto, last_node, visited, cost, battery_left) ==
    LET key == <<last_node, visited>>
        pareto_frontier == Frontier(pareto, key)
        new_pareto_frontier ==
            IF \E i \in 1..Len(pareto_frontier) :
                    dominates(pareto_frontier[i][1], pareto_frontier[i][2],
                              cost, battery_left)
            THEN pareto_frontier
            ELSE Append(SelectSeq(pareto_frontier,
                                  LAMBDA cur : ~dominates(cost, battery_left,
                                                          cur[1], cur[2])),
                        <<cost, battery_left>>)
    IN  [k \in DOMAIN pareto \cup {key} |->
            IF k = key THEN new_pareto_frontier ELSE pareto[k]]

\* The first loop of _try_complete_solution: a stored solution dominates
\* the new cost.
SolutionDominated(best_solutions, cost) ==
    \E i \in 1..Len(best_solutions) :
        LET c == best_solutions[i][2]
        IN  /\ c[1] <= cost[1] /\ c[2] <= cost[2] /\ c[3] <= cost[3]
            /\ (c[1] < cost[1] \/ c[2] < cost[2] \/ c[3] < cost[3])

\* A second loop that keeps every stored solution.
SolutionKept_All(cost, c) == TRUE

\* The condition of the second loop of _try_complete_solution under which
\* a stored solution with cost c is kept; Python reads
\*   not (A and B and C and D or E or F)  as  not ((A and B and C and D) or E or F).
SolutionKept(cost, c) ==
    ~(\/ (cost[1] <= c[1] /\ cost[2] <= c[2] /\ cost[3] <= c[3]
            /\ cost[1] < c[1])
      \/ cost[2] < c[2]
      \/ cost[3] < c[3])

\* _try_complete_solution: self.best_solutions after the call.
try_complete_solution(best_solutions, order, cost) ==
    IF SolutionDominated(best_solutions, cost)
    THEN best_solutions
    ELSE Append(SelectSeq(best_solutions, LAMBDA sol : SolutionKept(cost, sol[2])),
                <<order, cost>>)

\* The argument record of a _bb call.
bb_call(last_node, visited, cost, battery_left, order) ==
    [last_node |-> last_node, visited |-> visited, cost |-> cost,
     battery_left |-> battery_left, order |-> order]

\* A fold that leaves the recharges of the leg out.
AddLeg_NoRecharges(cost, result) ==
    <<cost[1] + result[1], cost[2] + result[2], cost[3]>>

\* cost + (distance, risk, recharges_used) of a transfer result.
AddLeg(cost, result) ==
    <<cost[1] + result[1], cost[2] + result[2], cost[3] + result[3]>>

\* A for loop that does not skip the visited clients.
bb_children_Revisit(g, c) ==
    LET reached == SelectSeq(g.clients,
                       LAMBDA client :
                           transfer(g, c.last_node, client, c.battery_left) # None)
    IN  [i \in 1..Len(reached) |->
            LET result == transfer(g, c.last_node, reached[i], c.battery_left)
            IN  bb_call(reached[i], c.visited \cup {reached[i]},
                        <<c.cost[1] + result[1], c.cost[2] + result[2],
                          c.cost[3] + result[3]>>, result[4],
                        Append(c.order, reached[i]))]

\* The recursive calls made by the for loop of _bb for call c, in the order
\* of self.clients: one per unvisited client that transfer reaches.
bb_children(g, c) ==
    LET reached == SelectSeq(g.clients,
                       LAMBDA client :
                           /\ client \notin c.visited
                           /\ transfer(g, c.last_node, client, c.battery_left) # None)
    IN  [i \in 1..Len(reached) |->
            LET result == transfer(g, c.last_node, reached[i], c.battery_left)
            IN  bb_call(reached[i], c.visited \cup {reached[i]},
                        AddLeg(c.cost, result), result[4],
                        Append(c.order, reached[i]))]

\* The solver at the start of solve(start_battery): best_solutions = [],
\* pareto cleared, and the first _bb call pending.  calls is the stack of
\* _bb calls still to be entered, the next one first: a call's children
\* are entered, each with its whole subtree, before its next sibling.
solve_enter(g, sv, start_battery) ==
    [sv EXCEPT !.pc = "running", !.start_battery = start_battery,
               !.best_solutions = << >>, !.pareto = << >>,
               !.calls = <<bb_call(g.hub, {}, <<0, 0, 0>>, start_battery, << >>)>>]

\* One _bb call, from its entry to its first recursive call or its return;
\* with no call pending, the return of solve.
bb_step(g, sv) ==
    IF sv.calls = << >>
    THEN [sv EXCEPT !.pc = "returned", !.returned = Append(@, sv.best_solutions)]
    ELSE LET c == Head(sv.calls)
             rest == Tail(sv.calls)
             registered == register_pareto(sv.pareto, c.last_node, c.visited,
                                           c.cost, c.battery_left)
             result == transfer(g, c.last_node, g.hub, c.battery_left)
         IN  IF is_dominated(sv.pareto, c.last_node, c.visited, c.cost,
                             c.battery_left)
             THEN [sv EXCEPT !.calls = rest]
             ELSE IF Cardinality(c.visited) = Len(g.clients)
             THEN IF result = None
                  THEN [sv EXCEPT !.calls = rest, !.pareto = registered]
                  ELSE [sv EXCEPT !.calls = rest, !.pareto = registered,
                                  !.best_solutions =
                                      try_complete_solution(sv.best_solutions,
                                          c.order, AddLeg(c.cost, result))]
             ELSE [sv EXCEPT !.calls = bb_children(g, c) \o rest,
                             !.pareto = registered]

\* The solver object after __init__; returned lists what the solve calls
\* made so far have returned.
solver_init ==
    [pc |-> "constructed", start_battery |-> 0, best_solutions |-> << >>,
     pareto |-> << >>, calls |-> << >>, returned |-> << >>]

\* solve(start_battery) run to its return: the list it returns.
RECURSIVE bb_run(_, _)
bb_run(g, sv) ==
    IF sv.pc = "returned" THEN sv.best_solutions ELSE bb_run(g, bb_step(g, sv))

solve(g, start_battery) == bb_run(g, solve_enter(g, solver_init, start_battery))

(***************************************************************************)
(* build_from_json (common/graph.py).  data is the loaded JSON record:     *)
(* max_battery, nodes (a list of [id, x, y, type]), forbidden_zones (a     *)
(* list of vertex lists) and risk_zones (a list of [polygon, risk_factor]).*)
(***************************************************************************)
\* hub = None before a hub record is seen (node ids are positive).
NoHub == 0

\* The ids of the node records of one type, in record order (the appends
\* of the loop over data["nodes"]).
IdsOfType(records, type) ==
    LET sel == SelectSeq(records, LAMBDA r : r.type = type)
    IN  [i \in 1..Len(sel) |-> sel[i].id]

\* The loop over data["nodes"] raises on the second hub record.
SecondHubRaises(records) == Len(IdsOfType(records, "hub")) > 1

\* nodes = {node["id"]: Point(x, y)}
\* (records that share an id: the last one's point is kept).
NodePoints(records) ==
    [id \in {records[i].id : i \in 1..Len(records)} |->
        LET last == CHOOSE i \in 1..Len(records) :
                        /\ records[i].id = id
                        /\ \A j \in (i + 1)..Len(records) : records[j].id # id
        IN  <<records[last].x, records[last].y>>]

\* Some Polygon(vertices) of the zone list raises.
ZonesRaise(vertex_lists) ==
    \E i \in 1..Len(vertex_lists) : PolygonRaises(vertex_lists[i])

\* blocked: the segment intersects some forbidden zone, boundary included.
blocked(segment, forbidden_zones) ==
    \E k \in 1..Len(forbidden_zones) :
        segment_intersects_polygon(segment, forbidden_zones[k], TRUE)

RECURSIVE SumSeq(_)
SumSeq(xs) == IF xs = << >> THEN 0 ELSE Head(xs) + SumSeq(Tail(xs))

\* The weight tuple (distance, risk, battery) of the edge between two points.
edge_weight(point_i, point_j, risk_zones) ==
    LET dist_i_j == distance(point_i, point_j)
        risk == SumSeq([k \in 1..Len(risk_zones) |->
                    IF segment_intersects_polygon(<<point_i, point_j>>,
                                                  risk_zones[k][1], TRUE)
                    THEN risk_zones[k][2] * dist_i_j ELSE 0])
    IN  <<dist_i_j, risk, dist_i_j>>

\* The adjacency map built by the double loop over nodes.
build_edges(nodes, forbidden_zones, risk_zones) ==
    [i \in DOMAIN nodes |->
        [j \in {j \in DOMAIN nodes \ {i} :
                    ~blocked(<<nodes[i], nodes[j]>>, forbidden_zones)} |->
            edge_weight(nodes[i], nodes[j], risk_zones)]]

\* The frame of a build_from_json call once the JSON is loaded.
build_enter(data) ==
    [pc |-> "nodes", data |-> data, nodes |-> << >>, clients |-> << >>,
     recharges |-> << >>, hub |-> NoHub, forbidden_zones |-> << >>,
     risk_zones |-> << >>, graph |-> << >>, error |-> ""]

\* Lines 162-174: the node map and the node types.
build_nodes(b) ==
    IF SecondHubRaises(b.data.nodes)
    THEN [b EXCEPT !.pc = "raised", !.nodes = NodePoints(b.data.nodes),
                   !.error = "JSON incorrecto: Contiene mas de un hub"]
    ELSE [b EXCEPT !.pc = "forbidden_zones",
                   !.nodes = NodePoints(b.data.nodes),
                   !.clients = IdsOfType(b.data.nodes, "client"),
                   !.recharges = IdsOfType(b.data.nodes, "recharge"),
                   !.hub = IF IdsOfType(b.data.nodes, "hub") = << >> THEN NoHub
                           ELSE IdsOfType(b.data.nodes, "hub")[1]]

\* Lines 176-180: the forbidden zone polygons.
build_forbidden_zones(b) ==
    IF ZonesRaise(b.data.forbidden_zones)
    THEN [b EXCEPT !.pc = "raised",
                   !.error = "Un poligono debe tener 3 o mas vertices"]
    ELSE [b EXCEPT !.pc = "risk_zones",
                   !.forbidden_zones =
                       [k \in 1..Len(b.data.forbidden_zones) |->
                           Polygon(b.data.forbidden_zones[k])]]

\* Lines 182-186: the risk zone polygons with their factors.
build_risk_zones(b) ==
    IF ZonesRaise([k \in 1..Len(b.data.risk_zones) |-> b.data.risk_zones[k].polygon])
    THEN [b EXCEPT !.pc = "raised",
                   !.error = "Un poligono debe tener 3 o mas vertices"]
    ELSE [b EXCEPT !.pc = "edges",
                   !.risk_zones =
                       [k \in 1..Len(b.data.risk_zones) |->
                           <<Polygon(b.data.risk_zones[k].polygon),
                             b.data.risk_zones[k].risk_factor>>]]

\* Lines 188-219: the directed edges.
build_graph(b) ==
    [b EXCEPT !.pc = "hub_check",
              !.graph = build_edges(b.nodes, b.forbidden_zones, b.risk_zones)]

\* Lines 221-222: no hub record was seen.
NoHubRaises(b) == b.hub = NoHub

\* Lines 221-226: the hub check and the Graph that is returned.
build_return(b) ==
    IF NoHubRaises(b)
    THEN [b EXCEPT !.pc = "raised",
                   !.error = "No se ha definido un hub en el archivo JSON"]
    ELSE [b EXCEPT !.pc = "returned"]

\* Graph(float(data["max_battery"]), nodes, clients, recharges, hub, ...)
graph_from_json(b) ==
    [max_battery |-> b.data.max_battery, nodes |-> b.nodes,
     clients |-> b.clients, recharges |-> b.recharges, hub |-> b.hub,
     forbidden_zones |-> b.forbidden_zones, risk_zones |-> b.risk_zones,
     edges |-> b.graph]

\* build_from_json run from the loaded JSON to its return or its raise:
\* the final frame.
build_from_json(data) ==
    LET b1 == build_nodes(build_enter(data))
        b2 == IF b1.pc = "raised" THEN b1 ELSE build_forbidden_zones(b1)
        b3 == IF b2.pc = "raised" THEN b2 ELSE build_risk_zones(b2)
        b4 == IF b3.pc = "raised" THEN b3 ELSE build_return(build_graph(b3))
    IN  b4

(***************************************************************************)
(* Specification SpecTransfer: one transfer call on a directly constructed *)
(* graph.  The graphs are the symmetric graphs over TNodes whose edges     *)
(* carry a distance in 0..MaxWeight, no risk, and a battery cost equal to  *)
(* the distance; the hub is node 1 and the recharges list is one of        *)
(* TRecharges (the hub may be listed in it: Graph.__init__ accepts that).  *)
(* The call starts at the hub or at node 2, which, depending on the list,  *)
(* is a recharge node or not.                                              *)
(***************************************************************************)
TNodes == {1, 2, 3, 4}
TStarts == {1, 2}
TRecharges == {<< >>, <<3>>, <<1, 3>>, <<3, 4>>, <<2, 3>>}

TPairs(nodes) == {p \in nodes \X nodes : p[1] < p[2]}

\* The unordered pair of two nodes.
Pair(u, v) == IF u < v THEN <<u, v>> ELSE <<v, u>>

\* The adjacency maps of the symmetric graph whose edges are DOMAIN wt, the
\* edge over pair p carrying distance wt[p], no risk and battery cost wt[p].
TEdges(nodes, wt) ==
    [u \in nodes |->
        [v \in {v \in nodes \ {u} : Pair(u, v) \in DOMAIN wt} |->
            <<wt[Pair(u, v)], 0, wt[Pair(u, v)]>>]]

TGraphs(nodes, lists) ==
    {[max_battery |-> MaxBattery, nodes |-> << >>, clients |-> << >>,
      recharges |-> rc, hub |-> 1, forbidden_zones |-> << >>,
      risk_zones |-> << >>, edges |-> TEdges(nodes, wt)] :
        rc \in lists,
        wt \in UNION {[present -> 0..MaxWeight] :
                         present \in SUBSET TPairs(nodes)}}

InitTransfer ==
    /\ graph \in TGraphs(TNodes, TRecharges)
    /\ \E start \in TStarts, goal \in TNodes, battery_left \in 0..MaxBattery :
            tr = transfer_enter(start, goal, battery_left)
    /\ solver = Idle
    /\ build = Idle
    /\ dm = Idle
    /\ geo = Idle

\* while priority_queue: fails, return None.
TransferReturnNone ==
    /\ tr.pc = "loop"
    /\ tr.priority_queue = << >>
    /\ tr' = transfer_step(graph, tr)
    /\ UNCHANGED <<graph, solver, build, dm, geo>>

\* recharges_used > len(self.recharges): continue.
TransferSkipOverCap ==
    /\ tr.pc = "loop"
    /\ tr.priority_queue # << >>
    /\ OverCap(graph, Head(tr.priority_queue))
    /\ tr' = transfer_step(graph, tr)
    /\ UNCHANGED <<graph, solver, build, dm, geo>>

\* current_node == goal: return the popped entry.
TransferReachGoal ==
    /\ tr.pc = "loop"
    /\ tr.priority_queue # << >>
    /\ ~OverCap(graph, Head(tr.priority_queue))
    /\ Head(tr.priority_queue)[4] = tr.goal
    /\ tr' = transfer_step(graph, tr)
    /\ UNCHANGED <<graph, solver, build, dm, geo>>

\* previous_best_battery >= battery_remaining: continue.
TransferSkipStale ==
    /\ tr.pc = "loop"
    /\ tr.priority_queue # << >>
    /\ ~OverCap(graph, Head(tr.priority_queue))
    /\ Head(tr.priority_queue)[4] # tr.goal
    /\ Stale(tr.best_battery, Head(tr.priority_queue))
    /\ tr' = transfer_step(graph, tr)
    /\ UNCHANGED <<graph, solver, build, dm, geo>>

\* Record the battery of the key and push the reachable neighbours.
TransferExpand ==
    /\ tr.pc = "loop"
    /\ tr.priority_queue # << >>
    /\ ~OverCap(graph, Head(tr.priority_queue))
    /\ Head(tr.priority_queue)[4] # tr.goal
    /\ ~Stale(tr.best_battery, Head(tr.priority_queue))
    /\ tr' = transfer_step(graph, tr)
    /\ UNCHANGED <<graph, solver, build, dm, geo>>

NextTransfer ==
    \/ TransferReturnNone
    \/ TransferSkipOverCap
    \/ TransferReachGoal
    \/ TransferSkipStale
    \/ TransferExpand

SpecTransfer == InitTransfer /\ [][NextTransfer]_vars

(***************************************************************************)
(* Specification SpecTransferLive: the same call on the graphs over three  *)
(* nodes, with the fairness of a loop that runs without interruption (a    *)
(* single thread, no blocking call): an enabled iteration is taken.        *)
(***************************************************************************)
LNodes == {1, 2, 3}
LRecharges == {<< >>, <<2>>, <<1, 2>>, <<2, 3>>}

InitTransferLive ==
    /\ graph \in TGraphs(LNodes, LRecharges)
    /\ \E start \in LNodes, goal \in LNodes, battery_left \in 0..MaxBattery :
            tr = transfer_enter(start, goal, battery_left)
    /\ solver = Idle
    /\ build = Idle
    /\ dm = Idle
    /\ geo = Idle

SpecTransferLive ==
    InitTransferLive /\ [][NextTransfer]_vars /\ WF_vars(NextTransfer)

(***************************************************************************)
(* Specification SpecBuild: one build_from_json call, and, when it returns *)
(* a Graph, one transfer call on that graph.  The node records sit on      *)
(* points whose pairwise distances are integers; each record has any of    *)
(* the three types, so inputs with no hub and with several hubs occur.     *)
(* The zone polygons are convex and listed counter-clockwise, except the   *)
(* two-vertex one.                                                         *)
(***************************************************************************)
BuildPoints == << <<0, 0>>, <<3, 0>>, <<0, 4>>, <<-3, 0>> >>
NodeTypes == {"hub", "client", "recharge"}

\* Zone polygons: a square across the segment (0,0)-(3,0); a rectangle
\* holding (0,0) and (3,0) strictly inside; a triangle touching the
\* segments out of (0,0) with a vertex; a square away from every segment;
\* a two-vertex list.
ZoneAcross == << <<1, -1>>, <<2, -1>>, <<2, 1>>, <<1, 1>> >>
ZoneAround == << <<-1, -1>>, <<4, -1>>, <<4, 1>>, <<-1, 1>> >>
ZoneTouch == << <<1, 0>>, <<2, 1>>, <<0, 1>> >>
ZoneAway == << <<5, 5>>, <<6, 5>>, <<6, 6>>, <<5, 6>> >>
ZoneShort == << <<1, -1>>, <<1, 1>> >>

ForbiddenLists ==
    {<< >>, <<ZoneAcross>>, <<ZoneAround>>, <<ZoneTouch>>, <<ZoneAway>>,
     <<ZoneShort>>, <<ZoneAway, ZoneAcross>>, <<ZoneAway, ZoneShort>>}

RiskLists ==
    {<< >>, <<[polygon |-> ZoneAcross, risk_factor |-> 1]>>,
     <<[polygon |-> ZoneAround, risk_factor |-> 2],
       [polygon |-> ZoneTouch, risk_factor |-> 1]>>,
     <<[polygon |-> ZoneShort, risk_factor |-> 1]>>}

\* max_battery of the map files of the model.
BuildBattery == 5

BuildData ==
    {[max_battery |-> BuildBattery,
      nodes |-> [i \in 1..Len(BuildPoints) |->
                    [id |-> i, x |-> BuildPoints[i][1], y |-> BuildPoints[i][2],
                     type |-> ty[i]]],
      forbidden_zones |-> fz, risk_zones |-> rz] :
        ty \in [1..Len(BuildPoints) -> NodeTypes],
        fz \in ForbiddenLists, rz \in RiskLists}

InitBuild ==
    /\ \E data \in BuildData : build = build_enter(data)
    /\ graph = Idle
    /\ tr = Idle
    /\ solver = Idle
    /\ dm = Idle
    /\ geo = Idle

BuildNodes ==
    /\ build.pc = "nodes"
    /\ ~SecondHubRaises(build.data.nodes)
    /\ build' = build_nodes(build)
    /\ UNCHANGED <<graph, tr, solver, dm, geo>>

BuildNodesRaise ==
    /\ build.pc = "nodes"
    /\ SecondHubRaises(build.data.nodes)
    /\ build' = build_nodes(build)
    /\ UNCHANGED <<graph, tr, solver, dm, geo>>

BuildForbiddenZones ==
    /\ build.pc = "forbidden_zones"
    /\ ~ZonesRaise(build.data.forbidden_zones)
    /\ build' = build_forbidden_zones(build)
    /\ UNCHANGED <<graph, tr, solver, dm, geo>>

BuildForbiddenZonesRaise ==
    /\ build.pc = "forbidden_zones"
    /\ ZonesRaise(build.data.forbidden_zones)
    /\ build' = build_forbidden_zones(build)
    /\ UNCHANGED <<graph, tr, solver, dm, geo>>

BuildRiskZones ==
    /\ build.pc = "risk_zones"
    /\ build_risk_zones(build).pc = "edges"
    /\ build' = build_risk_zones(build)
    /\ UNCHANGED <<graph, tr, solver, dm, geo>>

BuildRiskZonesRaise ==
    /\ build.pc = "risk_zones"
    /\ build_risk_zones(build).pc = "raised"
    /\ build' = build_risk_zones(build)
    /\ UNCHANGED <<graph, tr, solver, dm, geo>>

BuildGraph ==
    /\ build.pc = "edges"
    /\ build' = build_graph(build)
    /\ UNCHANGED <<graph, tr, solver, dm, geo>>

BuildReturn ==
    /\ build.pc = "hub_check"
    /\ ~NoHubRaises(build)
    /\ build' = build_return(build)
    /\ graph' = graph_from_json(build)
    /\ UNCHANGED <<tr, solver, dm, geo>>

BuildReturnRaise ==
    /\ build.pc = "hub_check"
    /\ NoHubRaises(build)
    /\ build' = build_return(build)
    /\ UNCHANGED <<graph, tr, solver, dm, geo>>

\* A caller asks the built graph for a transfer, with a full battery or
\* with what is left of one.
CallTransfer ==
    /\ build.pc = "returned"
    /\ tr = Idle
    /\ \E start \in DOMAIN graph.nodes, goal \in DOMAIN graph.nodes,
          battery_left \in {graph.max_battery, graph.max_battery - 1} :
            tr' = transfer_enter(start, goal, battery_left)
    /\ UNCHANGED <<graph, solver, build, dm, geo>>

NextBuild ==
    \/ BuildNodes
    \/ BuildNodesRaise
    \/ BuildForbiddenZones
    \/ BuildForbiddenZonesRaise
    \/ BuildRiskZones
    \/ BuildRiskZonesRaise
    \/ BuildGraph
    \/ BuildReturn
    \/ BuildReturnRaise
    \/ CallTransfer
    \/ TransferReturnNone
    \/ TransferSkipOverCap
    \/ TransferReachGoal
    \/ TransferSkipStale
    \/ TransferExpand

SpecBuild == InitBuild /\ [][NextBuild]_vars

(***************************************************************************)
(* Specification SpecSolve: a solver constructed on a directly built       *)
(* graph and two solve calls on it with the same start battery.  The hub   *)
(* is node 1 and every edge carries one of SWeights (distance, risk; the   *)
(* battery cost is the distance).  The graphs are the complete symmetric   *)
(* graphs over SNodes, where either nodes 2, 3, 4 are clients or nodes 2,  *)
(* 3 are clients and node 4 is a recharge node, and the complete symmetric *)
(* graphs over SStarNodes with four clients, each one unit of distance     *)
(* from the hub at no risk.                                                *)
(***************************************************************************)
SNodes == {1, 2, 3, 4}
SRoles == {[clients |-> <<2, 3, 4>>, recharges |-> << >>],
           [clients |-> <<2, 3>>, recharges |-> <<4>>]}
SWeights == {<<1, 0>>, <<1, 1>>, <<2, 0>>}
SStarNodes == {1, 2, 3, 4, 5}
SStarClients == <<2, 3, 4, 5>>

\* max_battery of the solver's graphs, and a lower start battery.
SolveBattery == 7
SolveLowBattery == 3

SEdges(wt) ==
    [u \in SNodes |->
        [v \in SNodes \ {u} |->
            <<wt[Pair(u, v)][1], wt[Pair(u, v)][2], wt[Pair(u, v)][1]>>]]

SStarEdges(wt) ==
    [u \in SStarNodes |->
        [v \in SStarNodes \ {u} |->
            IF u = 1 \/ v = 1 THEN <<1, 0, 1>>
            ELSE <<wt[Pair(u, v)][1], wt[Pair(u, v)][2], wt[Pair(u, v)][1]>>]]

SGraphs ==
    {[max_battery |-> SolveBattery, nodes |-> << >>, clients |-> ro.clients,
      recharges |-> ro.recharges, hub |-> 1, forbidden_zones |-> << >>,
      risk_zones |-> << >>, edges |-> SEdges(wt)] :
        ro \in SRoles, wt \in [TPairs(SNodes) -> SWeights]}
    \cup
    {[max_battery |-> SolveBattery, nodes |-> << >>, clients |-> SStarClients,
      recharges |-> << >>, hub |-> 1, forbidden_zones |-> << >>,
      risk_zones |-> << >>, edges |-> SStarEdges(wt)] :
        wt \in [TPairs(SStarNodes \ {1}) -> SWeights]}

InitSolve ==
    /\ graph \in SGraphs
    /\ \E start_battery \in {SolveBattery, SolveLowBattery} :
            solver = [solver_init EXCEPT !.start_battery = start_battery]
    /\ tr = Idle
    /\ build = Idle
    /\ dm = Idle
    /\ geo = Idle

\* solve(start_battery): the first call, and a second one with the same
\* battery once the first has returned.
Solve ==
    /\ solver.pc \in {"constructed", "returned"}
    /\ Len(solver.returned) < 2
    /\ solver' = solve_enter(graph, solver, solver.start_battery)
    /\ UNCHANGED <<graph, tr, build, dm, geo>>

BBPending == solver.pc = "running" /\ solver.calls # << >>

BBDominated ==
    is_dominated(solver.pareto, Head(solver.calls).last_node,
                 Head(solver.calls).visited, Head(solver.calls).cost,
                 Head(solver.calls).battery_left)

BBAllVisited == Cardinality(Head(solver.calls).visited) = Len(graph.clients)

BBHubReached ==
    transfer(graph, Head(solver.calls).last_node, graph.hub,
             Head(solver.calls).battery_left) # None

\* Case 1 of _bb: the state is dominated, return.
BBPrune ==
    /\ BBPending
    /\ BBDominated
    /\ solver' = bb_step(graph, solver)
    /\ UNCHANGED <<graph, tr, build, dm, geo>>

\* Case 2 of _bb, the hub cannot be reached: return.
BBDeadEnd ==
    /\ BBPending
    /\ ~BBDominated
    /\ BBAllVisited
    /\ ~BBHubReached
    /\ solver' = bb_step(graph, solver)
    /\ UNCHANGED <<graph, tr, build, dm, geo>>

\* Case 2 of _bb, the tour is complete: _try_complete_solution.
BBComplete ==
    /\ BBPending
    /\ ~BBDominated
    /\ BBAllVisited
    /\ BBHubReached
    /\ solver' = bb_step(graph, solver)
    /\ UNCHANGED <<graph, tr, build, dm, geo>>

\* Case 3 of _bb: the recursive calls for the unvisited clients.
BBExpand ==
    /\ BBPending
    /\ ~BBDominated
    /\ ~BBAllVisited
    /\ solver' = bb_step(graph, solver)
    /\ UNCHANGED <<graph, tr, build, dm, geo>>

\* The first _bb call has returned: solve returns self.best_solutions.
SolveReturn ==
    /\ solver.pc = "running"
    /\ solver.calls = << >>
    /\ solver' = bb_step(graph, solver)
    /\ UNCHANGED <<graph, tr, build, dm, geo>>

NextSolve ==
    \/ Solve
    \/ BBPrune
    \/ BBDeadEnd
    \/ BBComplete
    \/ BBExpand
    \/ SolveReturn

SpecSolve == InitSolve /\ [][NextSolve]_vars

(***************************************************************************)
(* Specification SpecDom: three states (cost, battery_left) of one key     *)
(* <<last_node, visited>>, with every component in 0..MaxCost, compared    *)
(* pairwise by _is_dominated and by _register_pareto.                      *)
(***************************************************************************)
\* The largest value of a cost component or of the battery of a state.
MaxCost == 1

DomStates ==
    {<<<<d, r, s>>, b>> : d \in 0..MaxCost, r \in 0..MaxCost,
                          s \in 0..MaxCost, b \in 0..MaxCost}

DomKey == <<1, {}>>

\* self.pareto holding the single state x under DomKey.
DomPareto(x) == [k \in {DomKey} |-> <<x>>]

InitDom ==
    /\ dm \in {[pc |-> "drawn", states |-> <<a, b, c>>,
                is_dominated |-> << >>, registered |-> << >>] :
                    a \in DomStates, b \in DomStates, c \in DomStates}
    /\ graph = Idle
    /\ tr = Idle
    /\ solver = Idle
    /\ build = Idle
    /\ geo = Idle

\* _is_dominated(last_node, visited, cost_j, battery_j) with state i alone
\* in the frontier, for every pair of the three states.
DomIsDominated ==
    /\ dm.pc = "drawn"
    /\ dm' = [dm EXCEPT
                !.pc = "checked",
                !.is_dominated =
                    [i \in 1..3 |-> [j \in 1..3 |->
                        is_dominated(DomPareto(dm.states[i]), DomKey[1], DomKey[2],
                                     dm.states[j][1], dm.states[j][2])]]]
    /\ UNCHANGED <<graph, tr, solver, build, geo>>

\* _register_pareto(last_node, visited, cost_j, battery_j) with state i
\* alone in the frontier: the frontier it leaves, for every pair.
DomRegister ==
    /\ dm.pc = "checked"
    /\ dm' = [dm EXCEPT
                !.pc = "registered",
                !.registered =
                    [i \in 1..3 |-> [j \in 1..3 |->
                        register_pareto(DomPareto(dm.states[i]), DomKey[1], DomKey[2],
                                        dm.states[j][1], dm.states[j][2])[DomKey]]]]
    /\ UNCHANGED <<graph, tr, solver, build, geo>>

NextDom ==
    \/ DomIsDominated
    \/ DomRegister

SpecDom == InitDom /\ [][NextDom]_vars

(***************************************************************************)
(* Specification SpecLegs: one transfer call from the hub to the client on *)
(* a small delivery graph.  The graphs are the graphs build_from_json      *)
(* returns, with no zones, for (a) a hub at (0,0) and a single client at   *)
(* one of LegPoints, and (b) a hub at (0,0), a recharge node and a client  *)
(* at two of DetourPoints whose three mutual distances are whole numbers.  *)
(***************************************************************************)
\* The largest coordinate of a node.
MaxLeg == 4

\* Client positions of (a): on the x axis, and (3,4) at distance 5.
LegPoints == {<<d, 0>> : d \in 0..MaxLeg} \cup {<<3, 4>>}

LegData(p, max_battery) ==
    [max_battery |-> max_battery,
     nodes |-> <<[id |-> 1, x |-> 0, y |-> 0, type |-> "hub"],
                 [id |-> 2, x |-> p[1], y |-> p[2], type |-> "client"]>>,
     forbidden_zones |-> << >>, risk_zones |-> << >>]

SingleClientGraphs ==
    {graph_from_json(build_from_json(LegData(p, max_battery))) :
        p \in LegPoints, max_battery \in {MaxLeg + 1, 100}}

\* n is the square of a whole number.
IsSquare(n) == \E r \in 0..n : r * r = n

\* The two points are a whole number of units apart.
WholeApart(a, b) ==
    IsSquare((a[1] - b[1]) * (a[1] - b[1]) + (a[2] - b[2]) * (a[2] - b[2]))

\* Positions of (b): lattice points a whole number of units from the hub.
DetourPoints ==
    {p \in (-MaxLeg..MaxLeg) \X (0..MaxLeg) : WholeApart(<<0, 0>>, p)}

DetourData(r, c, max_battery) ==
    [max_battery |-> max_battery,
     nodes |-> <<[id |-> 1, x |-> 0, y |-> 0, type |-> "hub"],
                 [id |-> 2, x |-> r[1], y |-> r[2], type |-> "recharge"],
                 [id |-> 3, x |-> c[1], y |-> c[2], type |-> "client"]>>,
     forbidden_zones |-> << >>, risk_zones |-> << >>]

\* Positions of R and of the client a whole number of units apart.
DetourPairs == {rc \in DetourPoints \X DetourPoints : WholeApart(rc[1], rc[2])}

RechargeGraphs ==
    {graph_from_json(build_from_json(DetourData(rc[1], rc[2], max_battery))) :
        rc \in DetourPairs, max_battery \in {MaxLeg, MaxLeg + 1}}

InitLegs ==
    /\ graph \in SingleClientGraphs \cup RechargeGraphs
    /\ tr = Idle
    /\ solver = Idle
    /\ build = Idle
    /\ dm = Idle
    /\ geo = Idle

\* transfer(hub, client, battery_left), from the call to its return.
LegTransfer ==
    /\ tr.pc = "idle"
    /\ \E battery_left \in 0..graph.max_battery :
            tr' = [pc |-> "done", start |-> graph.hub, goal |-> graph.clients[1],
                   battery_left |-> battery_left,
                   result |-> transfer(graph, graph.hub, graph.clients[1],
                                       battery_left)]
    /\ UNCHANGED <<graph, solver, build, dm, geo>>

NextLegs == LegTransfer

SpecLegs == InitLegs /\ [][NextLegs]_vars

(***************************************************************************)
(* Specification SpecSegments: segments_intersect called on two segments   *)
(* and then on the same two segments in the other order.  The first        *)
(* segment joins the Point objects 1 and 2; each end of the second is one  *)
(* of those two objects or a Point object of its own (3, 4).  Coordinates  *)
(* are drawn from the grid 0..MaxCoord, in steps of 1 or of 2^-16; the     *)
(* segments of test_segments_intersection_basic are added.                 *)
(***************************************************************************)
MaxCoord == 2

GridSegments ==
    {<<<<ax, ay, 1>>, <<bx, by, 2>>>> :
        ax \in 0..MaxCoord, ay \in 0..MaxCoord,
        bx \in 0..MaxCoord, by \in 0..MaxCoord}

\* The second segments for a first one: ends shared with it or fresh.
SecondSegments(first) ==
    LET ends(o) == {first[1], first[2]}
                    \cup {<<x, y, o>> : x \in 0..MaxCoord, y \in 0..MaxCoord}
    IN  {<<c, d>> : c \in ends(3), d \in ends(4)}

\* s1, s2, s3 of test_segments_intersection_basic.
TestSegment1 == <<<<0, 0, 1>>, <<4, 4, 2>>>>
TestSegment2 == <<<<0, 4, 3>>, <<4, 0, 4>>>>
TestSegment3 == <<<<5, 5, 3>>, <<6, 6, 4>>>>

InitSegments ==
    /\ \E first \in GridSegments \cup {TestSegment1} :
       \E second \in IF first = TestSegment1 THEN {TestSegment2, TestSegment3}
                                              ELSE SecondSegments(first) :
       \E include_endpoints \in BOOLEAN :
       \E fine \in BOOLEAN :
            geo = [pc |-> "drawn", fine |-> fine,
                   segment_a |-> first, segment_b |-> second,
                   include_endpoints |-> include_endpoints, results |-> << >>]
    /\ graph = Idle
    /\ tr = Idle
    /\ solver = Idle
    /\ build = Idle
    /\ dm = Idle

\* segments_intersect(segment_a, segment_b, include_endpoints=...)
SegmentsIntersect ==
    /\ geo.pc = "drawn"
    /\ geo' = [geo EXCEPT !.pc = "called",
                          !.results = <<segments_intersect(geo.segment_a,
                                            geo.segment_b, geo.include_endpoints)>>]
    /\ UNCHANGED <<graph, tr, solver, build, dm>>

\* segments_intersect(segment_b, segment_a, include_endpoints=...)
SegmentsIntersectSwapped ==
    /\ geo.pc = "called"
    /\ geo' = [geo EXCEPT !.pc = "swapped",
                          !.results = Append(@, segments_intersect(geo.segment_b,
                                            geo.segment_a, geo.include_endpoints))]
    /\ UNCHANGED <<graph, tr, solver, build, dm>>

NextSegments ==
    \/ SegmentsIntersect
    \/ SegmentsIntersectSwapped

SpecSegments == InitSegments /\ [][NextSegments]_vars

(***************************************************************************)
(* Specification SpecPolygon: the polygon predicates called on one polygon *)
(* and one segment: point_in_polygon on the segment's first end with both  *)
(* values of include_boundary, then segment_intersects_polygon, then       *)
(* segment_crosses_polygon.  The polygons are simple polygons given with a *)
(* cover by convex counter-clockwise pieces (used only to state the        *)
(* claims); the segments join points of the grid -1..MaxGrid, in steps of  *)
(* 1 or of 2^-16, and the segments and points of the tests of              *)
(* common/tests.py are added.                                              *)
(***************************************************************************)
MaxGrid == 5

\* zp1 of build_gotham.
TestSquare == << <<2, 1>>, <<4, 1>>, <<4, 3>>, <<2, 3>> >>

PolygonShapes ==
    {[vertices |-> TestSquare, pieces |-> <<TestSquare>>],
     \* a triangle with a slanted edge
     [vertices |-> << <<0, 0>>, <<4, 0>>, <<0, 4>> >>,
      pieces |-> << << <<0, 0>>, <<4, 0>>, <<0, 4>> >> >>],
     \* a square listed clockwise
     [vertices |-> << <<1, 1>>, <<1, 3>>, <<3, 3>>, <<3, 1>> >>,
      pieces |-> << << <<1, 1>>, <<3, 1>>, <<3, 3>>, <<1, 3>> >> >>],
     \* an L
     [vertices |-> << <<0, 0>>, <<4, 0>>, <<4, 2>>, <<2, 2>>, <<2, 4>>, <<0, 4>> >>,
      pieces |-> << << <<0, 0>>, <<4, 0>>, <<4, 2>>, <<0, 2>> >>,
                    << <<0, 0>>, <<2, 0>>, <<2, 4>>, <<0, 4>> >> >>],
     \* a chevron with a reflex vertex at (2,1)
     [vertices |-> << <<0, 0>>, <<2, 1>>, <<4, 0>>, <<2, 4>> >>,
      pieces |-> << << <<0, 0>>, <<2, 1>>, <<2, 4>> >>,
                    << <<2, 1>>, <<4, 0>>, <<2, 4>> >> >>]}

GridPoints == {<<x, y>> : x \in (-1)..MaxGrid, y \in (-1)..MaxGrid}

\* H -> C1 and H -> C2 of test_segment_intersects_polygon, and segments
\* from the points outside, inside and border of
\* test_point_in_polygon_inside_outside_border.
TestPolygonSegments ==
    {<< <<0, 0>>, <<5, 2>> >>, << <<0, 0>>, <<-3, 4>> >>,
     << <<10, 10>>, <<3, 2>> >>, << <<3, 2>>, <<10, 10>> >>,
     << <<2, 2>>, <<10, 10>> >>}

InitPolygon ==
    /\ \E shape \in PolygonShapes :
       \E segment \in (GridPoints \X GridPoints) \cup TestPolygonSegments :
       \E fine \in BOOLEAN :
            geo = [pc |-> "drawn", fine |-> fine, shape |-> shape,
                   polygon |-> Polygon(shape.vertices), segment |-> segment,
                   inside |-> << >>, intersects |-> << >>, crosses |-> << >>]
    /\ graph = Idle
    /\ tr = Idle
    /\ solver = Idle
    /\ build = Idle
    /\ dm = Idle

\* point_in_polygon(segment.a, polygon, include_boundary=True) and
\* point_in_polygon(segment.a, polygon, include_boundary=False)
PointInPolygon ==
    /\ geo.pc = "drawn"
    /\ geo' = [geo EXCEPT !.pc = "located",
                          !.inside = <<point_in_polygon(geo.segment[1], geo.polygon, TRUE),
                                       point_in_polygon(geo.segment[1], geo.polygon, FALSE)>>]
    /\ UNCHANGED <<graph, tr, solver, build, dm>>

\* segment_intersects_polygon(segment, polygon, include_boundary=True)
SegmentIntersectsPolygon ==
    /\ geo.pc = "located"
    /\ geo' = [geo EXCEPT !.pc = "intersected",
                          !.intersects = <<segment_intersects_polygon(geo.segment,
                                                geo.polygon, TRUE)>>]
    /\ UNCHANGED <<graph, tr, solver, build, dm>>

\* segment_crosses_polygon(segment, polygon)
SegmentCrossesPolygon ==
    /\ geo.pc = "intersected"
    /\ geo' = [geo EXCEPT !.pc = "crossed",
                          !.crosses = <<segment_crosses_polygon(geo.segment,
                                                                geo.polygon)>>]
    /\ UNCHANGED <<graph, tr, solver, build, dm>>

NextPolygon ==
    \/ PointInPolygon
    \/ SegmentIntersectsPolygon
    \/ SegmentCrossesPolygon

SpecPolygon == InitPolygon /\ [][NextPolygon]_vars

(***************************************************************************)
(* Feasible walks, as the contract of transfer states them: an edge may be *)
(* taken when its battery cost is at most the battery held on departure;   *)
(* arriving at a node for which is_recharge is true resets the battery to  *)
(* max_battery, and counts as a recharge stop unless the node is the hub.  *)
(* A walk is summarised by the configuration (node, battery) it ends in    *)
(* and the pair <<stops, distance>> it accumulated.  WalkBest is the       *)
(* lexicographically least pair of a feasible walk into each               *)
(* configuration, computed by relaxing every edge until nothing improves   *)
(* (Bellman-Ford on the configuration graph), independently of transfer.   *)
(***************************************************************************)
LexLeq(a, b) == a[1] < b[1] \/ (a[1] = b[1] /\ a[2] <= b[2])

LexMin(S) == CHOOSE x \in S : \A y \in S : LexLeq(x, y)

WalkConfigs(g, battery_left) ==
    (DOMAIN g.edges) \X (0..(IF battery_left > g.max_battery
                             THEN battery_left ELSE g.max_battery))

\* The configuration reached from c over the edge to v, None if c cannot
\* afford the edge.
WalkArrive(g, c, v) ==
    LET w == g.edges[c[1]][v]
    IN  IF w[3] > c[2] THEN None
        ELSE <<v, IF is_recharge(g, v) THEN g.max_battery ELSE c[2] - w[3]>>

\* The pair a walk accumulates over the edge from u to v.
WalkAdd(g, a, u, v) ==
    <<a[1] + (IF is_recharge(g, v) /\ v # g.hub THEN 1 ELSE 0),
      a[2] + g.edges[u][v][1]>>

WalkRelax(g, cs, F) ==
    [c \in cs |->
        LET into == {WalkAdd(g, F[p], p[1], c[1]) :
                        p \in {q \in cs : /\ F[q] # None
                                           /\ c[1] \in DOMAIN g.edges[q[1]]
                                           /\ WalkArrive(g, q, c[1]) = c}}
            all == into \cup (IF F[c] = None THEN {} ELSE {F[c]})
        IN  IF all = {} THEN None ELSE LexMin(all)]

RECURSIVE WalkFix(_, _, _)
WalkFix(g, cs, F) ==
    LET G == WalkRelax(g, cs, F)
    IN  IF G = F THEN F ELSE WalkFix(g, cs, G)

WalkBest(g, start, battery_left) ==
    LET cs == WalkConfigs(g, battery_left)
    IN  WalkFix(g, cs, [c \in cs |->
                          IF c = <<start, battery_left>> THEN <<0, 0>> ELSE None])

\* The pairs of the best feasible walks from start that end at goal.
WalkPairs(g, start, goal, battery_left) ==
    LET F == WalkBest(g, start, battery_left)
    IN  {F[c] : c \in {d \in DOMAIN F : d[1] = goal /\ F[d] # None}}

WalkExists(g, start, goal, battery_left) ==
    WalkPairs(g, start, goal, battery_left) # {}

(***************************************************************************)
(* Specification SpecTransferCharged: the same loop on the graphs over     *)
(* three nodes, entered with a battery between 0 and one unit more than    *)
(* the capacity (battery_left is a parameter that transfer does not        *)
(* compare with max_battery).                                              *)
(***************************************************************************)
InitTransferCharged ==
    /\ graph \in TGraphs(LNodes, LRecharges)
    /\ \E start \in LNodes, goal \in LNodes, battery_left \in 0..(MaxBattery + 1) :
            tr = transfer_enter(start, goal, battery_left)
    /\ solver = Idle
    /\ build = Idle
    /\ dm = Idle
    /\ geo = Idle

SpecTransferCharged == InitTransferCharged /\ [][NextTransfer]_vars

(***************************************************************************)
(* Claims about transfer.                                                  *)
(***************************************************************************)
TransferReturned == tr.pc = "done"

\* C1: whenever transfer returns a result, its (recharges, distance) pair
\* is the lexicographically least pair of any feasible walk from start to
\* goal: no feasible walk has fewer counted stops, and none with as many
\* stops is shorter.
C1_TransferLexMinimal ==
    (TransferReturned /\ tr.result # None) =>
        LET pairs == WalkPairs(graph, tr.start, tr.goal, tr.battery_left)
        IN  pairs # {} /\ <<tr.result[3], tr.result[1]>> = LexMin(pairs)

\* C1 witness: a call that returned a route with a counted stop to a goal
\* that is no recharge node, although a direct edge from start to goal
\* exists (the edge was too costly for the battery held).
C1_Witness ==
    /\ TransferReturned
    /\ tr.result # None
    /\ tr.result[3] >= 1
    /\ tr.result[1] >= 1
    /\ ~is_recharge(graph, tr.goal)
    /\ tr.goal \in DOMAIN graph.edges[tr.start]

\* C2: transfer returns None exactly when no feasible walk from start to
\* goal exists.
C2_NoneIffInfeasible ==
    TransferReturned =>
        ((tr.result = None) <=>
            ~WalkExists(graph, tr.start, tr.goal, tr.battery_left))

\* C2 witness: a call that returned None after expanding a recharge node,
\* on a graph where the goal has an edge into it.
C2_Witness ==
    /\ TransferReturned
    /\ tr.result = None
    /\ DOMAIN graph.edges[tr.goal] # {}
    /\ \E k \in DOMAIN tr.best_battery : k[2] >= 1

\* C4: every transfer call returns (a result tuple or None).
C4_TransferTerminates == <>TransferReturned

\* C4 witness: a call that returned None after expanding the same node
\* under two keys (a cycle through a recharge node), on a graph with a
\* zero-cost edge.
C4_Witness ==
    /\ TransferReturned
    /\ tr.result = None
    /\ \E k1 \in DOMAIN tr.best_battery, k2 \in DOMAIN tr.best_battery :
            k1[1] = k2[1] /\ k1[2] < k2[2]
    /\ \E u \in DOMAIN graph.edges : \E v \in DOMAIN graph.edges[u] :
            graph.edges[u][v][3] = 0

\* C3 (as claimed): on a graph built by build_from_json, arriving at a
\* recharge node or at the hub resets the battery to max_battery; arriving
\* at a recharge node other than the hub adds one to the recharge counter,
\* arriving at the hub leaves the counter unchanged.
C3_ArrivalResetsBattery ==
    (build.pc = "returned" /\ tr # Idle /\ tr.expanded) =>
        \A e \in tr.pushed :
            (is_recharge(graph, e[4]) \/ e[4] = graph.hub) =>
                /\ e[5] = graph.max_battery
                /\ e[4] # graph.hub => e[1] = tr.popped[1] + 1
                /\ e[4] = graph.hub => e[1] = tr.popped[1]

(***************************************************************************)
(* Claims about build_from_json.                                           *)
(*                                                                         *)
(* The closed region of a convex polygon listed counter-clockwise is the   *)
(* set of points p with turn(v_i, v_i+1, p) >= 0 for every edge.  Along    *)
(* the segment a + t (b - a) each of these is linear in t, c_i + t d_i,    *)
(* so the segment meets the region iff a is in it or iff some root         *)
(* t_i = -c_i / d_i in [0, 1] satisfies every constraint (the least        *)
(* feasible t is 0 or such a root).  Compared by cross-multiplication.     *)
(***************************************************************************)
InClosedRegion(p, vertices) ==
    \A i \in 1..Len(vertices) :
        turn(vertices[i], vertices[(i % Len(vertices)) + 1], p) >= 0

SegmentMeetsRegion(a, b, vertices) ==
    LET n == Len(vertices)
        c == [i \in 1..n |-> turn(vertices[i], vertices[(i % n) + 1], a)]
        d == [i \in 1..n |->
                turn(vertices[i], vertices[(i % n) + 1], b) - c[i]]
        Sign(x) == IF x > 0 THEN 1 ELSE IF x < 0 THEN -1 ELSE 0
    IN  \/ InClosedRegion(a, vertices)
        \/ \E i \in 1..n :
              /\ d[i] # 0
              /\ 0 <= (-c[i]) * Sign(d[i])
              /\ (-c[i]) * Sign(d[i]) <= Abs(d[i])
              /\ \A j \in 1..n :
                    (c[j] * Abs(d[i]) + (-c[i]) * Sign(d[i]) * d[j]) >= 0

\* The segment between two nodes has a point in some forbidden zone.
SegmentInForbiddenZone(b, i, j) ==
    \E k \in 1..Len(b.forbidden_zones) :
        SegmentMeetsRegion(b.nodes[i], b.nodes[j], b.forbidden_zones[k].vertices)

BuildHasEdges == build.pc \in {"hub_check", "returned"}

\* C8 (as claimed): after graph construction an edge i -> j (i # j) exists
\* iff no point of the segment between the two nodes lies in the interior
\* or on the boundary of a forbidden zone, and no edge i -> i exists.
C8_EdgeIffSegmentClear ==
    BuildHasEdges =>
        \A i \in DOMAIN build.nodes :
            /\ i \notin DOMAIN build.graph[i]
            /\ \A j \in DOMAIN build.nodes \ {i} :
                    (j \in DOMAIN build.graph[i]) <=>
                        ~SegmentInForbiddenZone(build, i, j)

\* The configuration errors of the claim: no hub record, several hub
\* records, or a zone polygon with fewer than 3 vertices.
BadConfiguration(data) ==
    \/ Cardinality({i \in 1..Len(data.nodes) : data.nodes[i].type = "hub"}) # 1
    \/ \E k \in 1..Len(data.forbidden_zones) : Len(data.forbidden_zones[k]) < 3
    \/ \E k \in 1..Len(data.risk_zones) : Len(data.risk_zones[k].polygon) < 3

\* C9: graph construction raises, and returns no Graph, when the node
\* records hold no hub or several hubs or when a zone polygon has fewer
\* than 3 vertices; otherwise it returns a Graph.
C9_BuildFailsIffBadConfiguration ==
    /\ build.pc = "raised" => (BadConfiguration(build.data) /\ graph = Idle)
    /\ build.pc = "returned" => (~BadConfiguration(build.data) /\ graph # Idle)
    /\ (build.pc \notin {"raised", "returned"}) => (graph = Idle /\ ENABLED NextBuild)

\* C9 witness: a call that raised at its last statement (no hub record)
\* after constructing every zone polygon of a non-empty zone list.
C9_Witness ==
    /\ build.pc = "raised"
    /\ build.hub = NoHub
    /\ build.forbidden_zones # << >>
    /\ build.graph # << >>

(***************************************************************************)
(* Claims about solve.  A tour is a permutation of the clients; its cost   *)
(* is accumulated leg by leg with transfer, hub -> clients in order ->     *)
(* hub, from the start battery, and it is feasible when every leg is.      *)
(***************************************************************************)
\* The permutations of a list.
Perms(xs) ==
    {p \in [1..Len(xs) -> {xs[i] : i \in 1..Len(xs)}] :
        \A i, j \in 1..Len(xs) : i # j => p[i] # p[j]}

\* The cost of the legs from node `from` through `stops`, None if a leg is
\* infeasible.
RECURSIVE LegsCost(_, _, _, _, _)
LegsCost(g, from, stops, battery, cost) ==
    IF stops = << >> THEN cost
    ELSE LET result == transfer(g, from, Head(stops), battery)
         IN  IF result = None THEN None
             ELSE LegsCost(g, Head(stops), Tail(stops), result[4],
                           AddLeg(cost, result))

TourCost(g, order, start_battery) ==
    LegsCost(g, g.hub, Append(order, g.hub), start_battery, <<0, 0, 0>>)

\* The costs of the feasible tours.
FeasibleTourCosts(g, start_battery) ==
    {TourCost(g, order, start_battery) :
        order \in {p \in Perms(g.clients) : TourCost(g, p, start_battery) # None}}

\* Pareto dominance on (distance, risk, recharges).
CostDominates(a, b) ==
    /\ a[1] <= b[1] /\ a[2] <= b[2] /\ a[3] <= b[3]
    /\ (a[1] < b[1] \/ a[2] < b[2] \/ a[3] < b[3])

SolveReturned == solver.pc = "returned"

ReturnedCosts == {solver.best_solutions[i][2] : i \in 1..Len(solver.best_solutions)}

SeqSet(xs) == {xs[i] : i \in 1..Len(xs)}

\* C5 (as claimed): solve returns the complete Pareto set: for every
\* feasible tour the returned list holds a tour whose cost equals or
\* dominates its cost.
C5_SolveReturnsParetoSet ==
    SolveReturned =>
        \A t \in FeasibleTourCosts(graph, solver.start_battery) :
            \E c \in ReturnedCosts : c = t \/ CostDominates(c, t)

\* C6 (as claimed): every returned (order, cost) is Pareto-optimal among
\* the feasible tours: no feasible tour's cost dominates cost.
C6_ReturnedAreParetoOptimal ==
    SolveReturned =>
        \A c \in ReturnedCosts :
            \A t \in FeasibleTourCosts(graph, solver.start_battery) :
                ~CostDominates(t, c)

\* C7 (as claimed): solve is deterministic: a second call on the same
\* instance returns the same set of (order, cost) pairs as the first, and
\* the set does not depend on the order in which the clients are iterated.
C7_SolveDeterministic ==
    SolveReturned =>
        /\ \A i, j \in 1..Len(solver.returned) :
                SeqSet(solver.returned[i]) = SeqSet(solver.returned[j])
        /\ \A p \in Perms(graph.clients) :
                SeqSet(solve([graph EXCEPT !.clients = p], solver.start_battery))
                    = SeqSet(solver.best_solutions)

\* Case 2 of _bb is about to call _try_complete_solution.
TourCompleted == BBPending /\ ~BBDominated /\ BBAllVisited /\ BBHubReached

\* The cost of the tour being completed.
CompletedCost ==
    AddLeg(Head(solver.calls).cost,
           transfer(graph, Head(solver.calls).last_node, graph.hub,
                    Head(solver.calls).battery_left))

\* C19 (as claimed): when _try_complete_solution inserts a complete tour
\* that no stored solution dominates, the stored solutions removed are
\* exactly those the new tour dominates on (distance, risk, recharges) and
\* every other stored solution is retained; when a stored solution
\* dominates the new tour, the stored set is unchanged.
C19_RemovesExactlyDominated ==
    [][TourCompleted =>
        LET stored == SeqSet(solver.best_solutions)
            new == <<Head(solver.calls).order, CompletedCost>>
        IN  IF \E sol \in stored : CostDominates(sol[2], new[2])
            THEN SeqSet(solver'.best_solutions) = stored
            ELSE SeqSet(solver'.best_solutions) =
                    {sol \in stored : ~CostDominates(new[2], sol[2])} \cup {new}
      ]_vars

\* Dominance of frontier entries <<cost, battery>>: no worse on distance,
\* risk and recharges (less is better) and on battery (more is better), and
\* not equal.
EntryDominates(a, b) ==
    /\ a[1][1] <= b[1][1] /\ a[1][2] <= b[1][2] /\ a[1][3] <= b[1][3]
    /\ a[2] >= b[2]
    /\ a # b

\* A _bb call is about to register its state (it is not dominated).
Registering == BBPending /\ ~BBDominated

RegisteringKey == <<Head(solver.calls).last_node, Head(solver.calls).visited>>

RegisteringEntry == <<Head(solver.calls).cost, Head(solver.calls).battery_left>>

FrontierAntichain ==
    \A key \in DOMAIN solver.pareto :
        \A i, j \in 1..Len(solver.pareto[key]) :
            ~EntryDominates(solver.pareto[key][i], solver.pareto[key][j])

\* C20: at every point of a solve call, no frontier holds two entries of
\* which one dominates the other under (distance, risk, recharges
\* minimised, battery maximised); registering a non-dominated state removes
\* from its key's frontier exactly the entries it dominates and appends it.
C20_FrontiersMutuallyNonDominated ==
    /\ []FrontierAntichain
    /\ [][Registering =>
            /\ RegisteringKey \in DOMAIN solver'.pareto
            /\ solver'.pareto[RegisteringKey] =
                    Append(SelectSeq(Frontier(solver.pareto, RegisteringKey),
                                     LAMBDA cur : ~EntryDominates(RegisteringEntry, cur)),
                           RegisteringEntry)
            /\ \A key \in DOMAIN solver.pareto \ {RegisteringKey} :
                    solver'.pareto[key] = solver.pareto[key]
         ]_vars

\* C20 witness: a frontier that holds two different entries, neither
\* dominating the other.
C20_Witness ==
    \E key \in DOMAIN solver.pareto :
        \E i, j \in 1..Len(solver.pareto[key]) :
            /\ solver.pareto[key][i] # solver.pareto[key][j]
            /\ ~EntryDominates(solver.pareto[key][i], solver.pareto[key][j])
            /\ ~EntryDominates(solver.pareto[key][j], solver.pareto[key][i])

(***************************************************************************)
(* Claims about the dominance relation.  State i dominates state j when    *)
(* _is_dominated answers True for j against the frontier holding only i;   *)
(* _register_pareto uses the relation twice: it leaves the frontier <<i>>  *)
(* untouched when i dominates j, and drops i from it when j dominates i.   *)
(***************************************************************************)
DomCompared == dm.pc = "registered"

Dom(i, j) == dm.is_dominated[i][j]

\* i keeps j out of the frontier.
DomRejects(i, j) == dm.registered[i][j] = <<dm.states[i]>>

\* j evicts i from the frontier.
DomEvicted(i, j) == dm.registered[i][j] = <<dm.states[j]>>

\* C10: the dominance relation of _is_dominated and _register_pareto is a
\* strict partial order: no state dominates itself, if A dominates B then
\* B does not dominate A, and if A dominates B and B dominates C then A
\* dominates C; _register_pareto rejects and evicts by the same relation.
C10_DominanceStrictPartialOrder ==
    DomCompared =>
        \A i, j, k \in 1..3 :
            /\ ~Dom(i, i)
            /\ Dom(i, j) => ~Dom(j, i)
            /\ (Dom(i, j) /\ Dom(j, k)) => Dom(i, k)
            /\ Dom(i, j) <=> DomRejects(i, j)
            /\ Dom(j, i) <=> DomEvicted(i, j)

\* A chain of three distinct states, each dominating the next, has been
\* compared.
C10_Witness ==
    /\ DomCompared
    /\ Dom(1, 2) /\ Dom(2, 3)
    /\ dm.states[1] # dm.states[2] /\ dm.states[2] # dm.states[3]
    /\ dm.states[1][1] # dm.states[2][1]
    /\ dm.states[2][2] # dm.states[3][2]

(***************************************************************************)
(* Claims about transfer on the delivery graphs of SpecLegs.               *)
(***************************************************************************)
LegReturned == tr.pc = "done"

\* The graph is a hub and a single client joined by an edge.
SingleClient ==
    /\ DOMAIN graph.edges = {1, 2}
    /\ graph.clients = <<2>>
    /\ graph.recharges = << >>
    /\ edge_cost(graph, 1, 2) # None

\* C11: with a hub and a single client joined by a risk-free edge of length
\* d <= battery, transfer(hub, client, battery) returns
\* (d, 0, 0, battery - d); with d = 5 and battery = max_battery = 100 the
\* result is (5, 0, 0, 95).
C11_SingleLeg ==
    (LegReturned /\ SingleClient) =>
        LET d == edge_cost(graph, 1, 2)[1]
        IN  /\ (edge_cost(graph, 1, 2)[2] = 0 /\ d <= tr.battery_left) =>
                    tr.result = <<d, 0, 0, tr.battery_left - d>>
            /\ (graph.nodes[2] = <<3, 4>> /\ graph.max_battery = 100
                    /\ tr.battery_left = 100) =>
                    tr.result = <<5, 0, 0, 95>>

\* The call with the client at (3,4), battery 100 of 100, has returned.
C11_Witness ==
    /\ LegReturned /\ SingleClient
    /\ graph.nodes[2] = <<3, 4>>
    /\ graph.max_battery = 100 /\ tr.battery_left = 100
    /\ tr.result # None

\* The graph is a hub, a recharge node R and a client, all three joined.
OneRecharge ==
    /\ graph.recharges = <<2>>
    /\ graph.clients = <<3>>

\* The direct edge costs more than the battery, hub -> R at most the
\* battery, and R -> client at most max_battery.
DetourNeeded ==
    /\ edge_cost(graph, 1, 3)[3] > tr.battery_left
    /\ edge_cost(graph, 1, 2)[3] <= tr.battery_left
    /\ edge_cost(graph, 2, 3)[3] <= graph.max_battery

\* transfer succeeded through R: one recharge, the distance of the two
\* legs, and max_battery less the cost of R -> client left.
DetourReported ==
    /\ tr.result # None
    /\ tr.result[3] = 1
    /\ tr.result[1] = edge_cost(graph, 1, 2)[1] + edge_cost(graph, 2, 3)[1]
    /\ tr.result[4] = graph.max_battery - edge_cost(graph, 2, 3)[3]

\* C12: in a graph with a hub, one recharge node R and one client, whenever
\* the direct edge costs more than the battery, hub -> R at most the
\* battery and R -> client at most max_battery, transfer(hub, client,
\* battery) succeeds through R and reports one recharge, the sum of the two
\* legs and max_battery minus the cost of R -> client.
C12_DetourThroughRecharge ==
    (LegReturned /\ OneRecharge /\ DetourNeeded) => DetourReported

\* A detour with legs of positive length, together longer than the direct
\* edge, has been reported.
C12_Witness ==
    /\ LegReturned /\ OneRecharge /\ DetourNeeded
    /\ edge_cost(graph, 1, 2)[1] > 0
    /\ edge_cost(graph, 2, 3)[1] > 0
    /\ edge_cost(graph, 1, 2)[1] + edge_cost(graph, 2, 3)[1]
            > edge_cost(graph, 1, 3)[1]
    /\ DetourReported

(***************************************************************************)
(* Claims about segments_intersect.  Two segments p + t r and q + u s,     *)
(* t, u in [0, 1], cross properly when r x s # 0 and the parameters of the *)
(* meeting point of their lines, t = (q - p) x s / (r x s) and             *)
(* u = (q - p) x r / (r x s), both lie strictly between 0 and 1.           *)
(***************************************************************************)
Cross(u, v) == u[1] * v[2] - u[2] * v[1]

Minus(p, q) == <<p[1] - q[1], p[2] - q[2]>>

\* 0 < num / den < 1
StrictFraction(num, den) ==
    IF den > 0 THEN 0 < num /\ num < den ELSE den < num /\ num < 0

ProperlyCross(s1, s2) ==
    LET r == Minus(s1[2], s1[1])
        s == Minus(s2[2], s2[1])
        qp == Minus(s2[1], s1[1])
    IN  /\ Cross(r, s) # 0
        /\ StrictFraction(Cross(qp, s), Cross(r, s))
        /\ StrictFraction(Cross(qp, r), Cross(r, s))

\* The four ends lie on one line and the coordinate ranges are disjoint.
CollinearDisjoint(s1, s2) ==
    LET r == Minus(s1[2], s1[1])
        s == Minus(s2[2], s2[1])
    IN  /\ Cross(r, s) = 0
        /\ Cross(Minus(s2[1], s1[1]), r) = 0 /\ Cross(Minus(s2[2], s1[1]), r) = 0
        /\ Cross(Minus(s1[1], s2[1]), s) = 0 /\ Cross(Minus(s1[2], s2[1]), s) = 0
        /\ \/ Max2(s1[1][1], s1[2][1]) < Min2(s2[1][1], s2[2][1])
           \/ Max2(s2[1][1], s2[2][1]) < Min2(s1[1][1], s1[2][1])
           \/ Max2(s1[1][2], s1[2][2]) < Min2(s2[1][2], s2[2][2])
           \/ Max2(s2[1][2], s2[2][2]) < Min2(s1[1][2], s1[2][2])

SegmentsCalled == geo.pc \in {"called", "swapped"}

SegmentsSwapped == geo.pc = "swapped"

\* C13 (as claimed): segments_intersect is symmetric in its two segment
\* arguments, for both values of include_endpoints.
C13_SegmentsIntersectSymmetric ==
    SegmentsSwapped => geo.results[1] = geo.results[2]

\* C17 (as claimed): two segments that properly cross are reported as intersecting for
\* both values of include_endpoints, two collinear segments with disjoint
\* coordinate ranges as not intersecting; (0,0)-(4,4) intersects
\* (0,4)-(4,0) and does not intersect (5,5)-(6,6).
C17_CrossingAndCollinearDisjoint ==
    SegmentsCalled =>
        /\ ProperlyCross(geo.segment_a, geo.segment_b) => geo.results[1]
        /\ CollinearDisjoint(geo.segment_a, geo.segment_b) => ~geo.results[1]
        /\ (~geo.fine /\ geo.segment_a = TestSegment1 /\ geo.segment_b = TestSegment2)
                => geo.results[1]
        /\ (~geo.fine /\ geo.segment_a = TestSegment1 /\ geo.segment_b = TestSegment3)
                => ~geo.results[1]

(***************************************************************************)
(* Claims about the battery during transfer.                               *)
(***************************************************************************)
\* The battery cost of the edge from u to v.
BatteryCost(g, u, v) == g.edges[u][v][3]

\* The neighbours of the node just expanded whose edge costs more than the
\* battery held there.
RefusedNeighbours ==
    {v \in DOMAIN Adjacent(graph, tr.popped[4]) :
        BatteryCost(graph, tr.popped[4], v) > tr.popped[5]}

\* C18: during transfer an edge is followed only when its battery cost is
\* at most the battery held at the node being expanded; every entry of the
\* priority queue has battery >= 0, and the battery of a returned result is
\* >= 0 and at most max(start battery, max_battery).
C18_BatteryNeverOverdrawn ==
    /\ tr.expanded =>
            \A x \in tr.pushed :
                /\ x[4] \in DOMAIN Adjacent(graph, tr.popped[4])
                /\ BatteryCost(graph, tr.popped[4], x[4]) <= tr.popped[5]
    /\ \A i \in 1..Len(tr.priority_queue) : tr.priority_queue[i][5] >= 0
    /\ (TransferReturned /\ tr.result # None) =>
            /\ tr.result[4] >= 0
            /\ tr.result[4] <= Max2(tr.battery_left, graph.max_battery)

\* C18 witness: an expansion, away from the start, that followed one edge
\* and refused another.
C18_Witness ==
    /\ tr.expanded
    /\ tr.popped[4] # tr.start
    /\ tr.pushed # {}
    /\ RefusedNeighbours # {}

(***************************************************************************)
(* Claims about the polygon predicates.  A point is on the boundary when   *)
(* it lies on an edge v -> w: (w - v) x (p - v) = 0 and                    *)
(* 0 <= (p - v) . (w - v) <= |w - v|^2.  It is in the closed polygon when  *)
(* it is in one of the convex pieces, strictly inside when it is there and *)
(* not on the boundary.  Two segments share a point when their lines meet  *)
(* at parameters in [0, 1], or when they are collinear with overlapping    *)
(* coordinate ranges.                                                      *)
(***************************************************************************)
Dot(u, v) == u[1] * v[1] + u[2] * v[2]

OnEdge(p, v, w) ==
    /\ Cross(Minus(w, v), Minus(p, v)) = 0
    /\ 0 <= Dot(Minus(p, v), Minus(w, v))
    /\ Dot(Minus(p, v), Minus(w, v)) <= Dot(Minus(w, v), Minus(w, v))

OnBoundary(p, vertices) ==
    \E i \in 1..Len(vertices) :
        OnEdge(p, vertices[i], vertices[(i % Len(vertices)) + 1])

InClosedPolygon(p, shape) ==
    \E k \in 1..Len(shape.pieces) : InClosedRegion(p, shape.pieces[k])

StrictlyInside(p, shape) ==
    InClosedPolygon(p, shape) /\ ~OnBoundary(p, shape.vertices)

\* 0 <= num / den <= 1
ClosedFraction(num, den) ==
    IF den > 0 THEN 0 <= num /\ num <= den ELSE den <= num /\ num <= 0

SegmentsMeet(s1, s2) ==
    LET r == Minus(s1[2], s1[1])
        s == Minus(s2[2], s2[1])
        qp == Minus(s2[1], s1[1])
    IN  IF Cross(r, s) # 0
        THEN /\ ClosedFraction(Cross(qp, s), Cross(r, s))
             /\ ClosedFraction(Cross(qp, r), Cross(r, s))
        ELSE /\ Cross(qp, r) = 0 /\ Cross(Minus(s2[2], s1[1]), r) = 0
             /\ Cross(qp, s) = 0 /\ Cross(Minus(s1[2], s2[1]), s) = 0
             /\ Max2(Min2(s1[1][1], s1[2][1]), Min2(s2[1][1], s2[2][1]))
                    <= Min2(Max2(s1[1][1], s1[2][1]), Max2(s2[1][1], s2[2][1]))
             /\ Max2(Min2(s1[1][2], s1[2][2]), Min2(s2[1][2], s2[2][2]))
                    <= Min2(Max2(s1[1][2], s1[2][2]), Max2(s2[1][2], s2[2][2]))

MeetsSomeEdge(segment, vertices) ==
    \E i \in 1..Len(vertices) :
        SegmentsMeet(segment, <<vertices[i], vertices[(i % Len(vertices)) + 1]>>)

PolygonLocated == geo.pc \in {"located", "intersected", "crossed"}

PolygonIntersected == geo.pc \in {"intersected", "crossed"}

PolygonCrossed == geo.pc = "crossed"

\* A segment that touches the left edge of the square from outside.
TouchingSegment == << <<0, 2>>, <<2, 2>> >>

\* C14 (as claimed): whenever segment_crosses_polygon is true,
\* segment_intersects_polygon with include_boundary=True is true; not
\* conversely: the segment (0,2)-(2,2) intersects the boundary of the
\* square (2,1),(4,1),(4,3),(2,3) and does not cross it.
C14_CrossesImpliesIntersects ==
    PolygonCrossed =>
        /\ geo.crosses[1] => geo.intersects[1]
        /\ (~geo.fine /\ geo.shape.vertices = TestSquare
                      /\ geo.segment = TouchingSegment)
                => (geo.intersects[1] /\ ~geo.crosses[1])

\* C15 (as claimed): a point on an edge of the polygon (vertices included) is reported
\* inside with include_boundary=True and not with include_boundary=False;
\* a point strictly inside is reported inside and a point outside is not,
\* for both settings.
C15_PointInPolygon ==
    PolygonLocated =>
        LET a == geo.segment[1]
        IN  /\ OnBoundary(a, geo.shape.vertices)
                    => (geo.inside[1] /\ ~geo.inside[2])
            /\ StrictlyInside(a, geo.shape) => (geo.inside[1] /\ geo.inside[2])
            /\ ~InClosedPolygon(a, geo.shape)
                    => (~geo.inside[1] /\ ~geo.inside[2])

\* C16 (as claimed): segment_intersects_polygon with include_boundary=True is true
\* exactly when the segment shares a point with some edge of the polygon;
\* for the square (2,1),(4,1),(4,3),(2,3) the segment (0,0)-(5,2) yields
\* true and the segment (0,0)-(-3,4) yields false.
C16_IntersectsIffMeetsEdge ==
    PolygonIntersected =>
        /\ geo.intersects[1] <=> MeetsSomeEdge(geo.segment, geo.shape.vertices)
        /\ (~geo.fine /\ geo.shape.vertices = TestSquare
                      /\ geo.segment = << <<0, 0>>, <<5, 2>> >>)
                => geo.intersects[1]
        /\ (~geo.fine /\ geo.shape.vertices = TestSquare
                      /\ geo.segment = << <<0, 0>>, <<-3, 4>> >>)
                => ~geo.intersects[1]

(***************************************************************************)
(* Specification SpecChain: the legs that _bb (and evaluate_order) chain   *)
(* with transfer, from a node through a sequence of stops that ends at the *)
(* hub, run twice: with a battery and with a battery at least as large.    *)
(* The graphs are the symmetric graphs over three nodes and DetourGraph,   *)
(* in which node 2 reaches the hub through the client 4 (5 + 5) or through *)
(* the recharge node 3 (3 + 3).                                            *)
(***************************************************************************)
\* The largest number of stops before the hub.
MaxStops == 2

DetourGraph ==
    [max_battery |-> 10, nodes |-> << >>, clients |-> <<2, 4>>,
     recharges |-> <<3>>, hub |-> 1, forbidden_zones |-> << >>,
     risk_zones |-> << >>,
     edges |-> TEdges({1, 2, 3, 4},
                      (<<2, 4>> :> 5) @@ (<<1, 4>> :> 5)
                         @@ (<<2, 3>> :> 3) @@ (<<1, 3>> :> 3))]

\* The sequences of at most MaxStops different nodes other than the hub,
\* followed by the hub.
ChainStops(g) ==
    LET others == DOMAIN g.edges \ {g.hub}
        lists == UNION {[1..n -> others] : n \in 0..MaxStops}
    IN  {Append(p, g.hub) :
            p \in {q \in lists : \A i, j \in DOMAIN q : i # j => q[i] # q[j]}}

\* The legs of _bb along the stops: transfer from the last node to the next
\* stop with the battery left, costs added; None when a leg is infeasible.
chain(g, node, stops, battery) == LegsCost(g, node, stops, battery, <<0, 0, 0>>)

InitChain ==
    /\ graph \in TGraphs(LNodes, LRecharges) \cup {DetourGraph}
    /\ \E node \in DOMAIN graph.edges, stops \in ChainStops(graph) :
       \E battery \in 0..graph.max_battery, lower \in 0..graph.max_battery :
            /\ lower <= battery
            /\ tr = [pc |-> "chain", node |-> node, stops |-> stops,
                     battery |-> battery, lower |-> lower, results |-> << >>]
    /\ solver = Idle
    /\ build = Idle
    /\ dm = Idle
    /\ geo = Idle

\* The chain with the lower battery.
ChainLower ==
    /\ tr.pc = "chain"
    /\ tr' = [tr EXCEPT !.pc = "lower",
                        !.results = <<chain(graph, tr.node, tr.stops, tr.lower)>>]
    /\ UNCHANGED <<graph, solver, build, dm, geo>>

\* The chain with the higher battery.
ChainHigher ==
    /\ tr.pc = "lower"
    /\ tr' = [tr EXCEPT !.pc = "higher",
                        !.results = Append(@, chain(graph, tr.node, tr.stops,
                                                    tr.battery))]
    /\ UNCHANGED <<graph, solver, build, dm, geo>>

NextChain ==
    \/ ChainLower
    \/ ChainHigher

SpecChain == InitChain /\ [][NextChain]_vars

\* C21 (as claimed): if chaining transfer along the stops with the lower
\* battery succeeds with (distance', risk', recharges'), chaining with the
\* higher battery succeeds with distance <= distance', risk <= risk' and
\* recharges <= recharges'.
C21_HigherBatteryNeverWorse ==
    (tr.pc = "higher" /\ tr.results[1] # None) =>
        /\ tr.results[2] # None
        /\ tr.results[2][1] <= tr.results[1][1]
        /\ tr.results[2][2] <= tr.results[1][2]
        /\ tr.results[2][3] <= tr.results[1][3]

(***************************************************************************)
(* Claims about the closed set of transfer.  best_battery changes only     *)
(* when a state is expanded, and then records that state's battery, so the *)
(* record of a key is the battery of its last expansion.                   *)
(***************************************************************************)
\* C22: a popped non-goal state is expanded only if its key (node,
\* recharges_used) has no record of an earlier expansion, or a record with
\* less battery than its own; an expansion records its battery, so the
\* successive expansions of a key have strictly increasing battery, and no
\* step lowers the record of a key.
C22_ExpansionsStrictlyIncrease ==
    [][(tr.pc = "loop" /\ tr.priority_queue # << >>) =>
        LET e == Head(tr.priority_queue)
            key == <<e[4], e[1]>>
        IN  /\ tr'.expanded =>
                    /\ e[4] # tr.goal
                    /\ key \in DOMAIN tr.best_battery => tr.best_battery[key] < e[5]
                    /\ tr'.best_battery[key] = e[5]
            /\ ~tr'.expanded => tr'.best_battery = tr.best_battery
            /\ \A k \in DOMAIN tr.best_battery :
                    /\ k \in DOMAIN tr'.best_battery
                    /\ tr'.best_battery[k] >= tr.best_battery[k]
      ]_vars

\* C22 witness: the key (start, 0), expanded first with the battery of the
\* call, has been expanded again with more battery (the search came back
\* through the hub, which recharges without counting a stop).
C22_Witness ==
    /\ tr.pc = "loop"
    /\ tr.expanded
    /\ tr.popped[4] = tr.start /\ tr.popped[1] = 0
    /\ tr.popped[5] > tr.battery_left

(***************************************************************************)
(* Specification SpecRaised: transfer on a graph whose cap on              *)
(* recharges_used is raised.  The cap of l.101 is len(self.recharges), the *)
(* length of the list, so a list that names a recharge node again (as the  *)
(* loop of l.165-170 appends it for every record of the node) raises the   *)
(* cap and changes nothing else: is_recharge is membership.  The graphs    *)
(* are the graphs over three nodes with the last entry of a non-empty      *)
(* recharges list repeated up to MaxOver more times.  The call is run      *)
(* iteration by iteration, next to the value of the call on the graph with *)
(* no entry repeated.                                                      *)
(*                                                                         *)
(* A search with no cap at all pops what the search with the raised cap    *)
(* pops, up to the first entry over the raised cap; it has a value to      *)
(* return only if, for some cap, no entry is ever over it.  Once an entry  *)
(* with more counted stops than recharge nodes is popped, some recharge    *)
(* node has been arrived at twice, with a full battery each time, so it is *)
(* arrived at again with every higher number of stops, each a new key of   *)
(* best_battery: entries over every cap follow.                            *)
(***************************************************************************)
MaxOver == 2

\* The graph with the last entry of its recharges list named over more
\* times.
RaisedCap(g, over) ==
    [g EXCEPT !.recharges =
        g.recharges \o [i \in 1..over |-> g.recharges[Len(g.recharges)]]]

InitRaised ==
    /\ \E g \in TGraphs(LNodes, LRecharges) :
        \E over \in IF g.recharges = << >> THEN {0} ELSE 0..MaxOver :
        \E start \in LNodes, goal \in LNodes, battery_left \in 0..MaxBattery :
            /\ graph = RaisedCap(g, over)
            /\ tr = [pc |-> "enter", start |-> start, goal |-> goal,
                     battery_left |-> battery_left, over |-> over,
                     capped |-> transfer(g, start, goal, battery_left)]
    /\ solver = Idle
    /\ build = Idle
    /\ dm = Idle
    /\ geo = Idle

\* graph.transfer(start, goal, battery_left) is entered; capped is the
\* value of the call on the graph with no entry repeated.
RaisedEnter ==
    /\ tr.pc = "enter"
    /\ tr' = LET f == transfer_enter(tr.start, tr.goal, tr.battery_left)
             IN  [pc |-> f.pc, start |-> f.start, goal |-> f.goal,
                  battery_left |-> f.battery_left,
                  priority_queue |-> f.priority_queue,
                  best_battery |-> f.best_battery, popped |-> f.popped,
                  pushed |-> f.pushed, expanded |-> f.expanded,
                  result |-> f.result, over |-> tr.over,
                  capped |-> tr.capped]
    /\ UNCHANGED <<graph, solver, build, dm, geo>>

\* One iteration of the loop.
RaisedStep ==
    /\ tr.pc = "loop"
    /\ tr' = transfer_step(graph, tr)
    /\ UNCHANGED <<graph, solver, build, dm, geo>>

NextRaised ==
    \/ RaisedEnter
    \/ RaisedStep

SpecRaised == InitRaised /\ [][NextRaised]_vars

RaisedReturned == tr.pc = "done"

\* The number of recharge nodes: the entries that are not repeats.
RechargeNodes == Len(graph.recharges) - tr.over

\* The search with the raised cap returns what the call with the cap at
\* the number of recharge nodes returns, and a returned tuple counts at
\* most as many stops as there are recharge nodes.
SameOutcome ==
    RaisedReturned =>
        /\ tr.result = tr.capped
        /\ tr.result # None => tr.result[3] <= RechargeNodes

\* The last iteration popped an entry with more stops than recharge nodes.
PoppedOverNodes ==
    /\ tr.pc = "loop"
    /\ tr.popped # None
    /\ tr.popped[1] > RechargeNodes

\* The last iteration abandoned its popped entry for being over the cap.
Abandoned ==
    /\ tr.pc = "loop"
    /\ tr.popped # None
    /\ OverCap(graph, tr.popped)

\* C23 (as claimed): abandoning popped states over the cap never changes
\* the outcome: for every graph, start, goal and battery the call returns
\* the value that the same search without the cap returns, and every
\* returned recharges component is at most the number of recharge nodes.
\* The search without the cap is the search with the cap raised that
\* abandons nothing, so with the cap raised by MaxOver nothing is abandoned
\* and the value returned is the same.
C23_CapNeverChangesOutcome ==
    /\ tr.over = MaxOver => ~Abandoned
    /\ SameOutcome

\* C23 (amended): raising the cap never changes the outcome: with the cap
\* above the number of recharge nodes by any amount the call returns the
\* same value, with at most as many stops as recharge nodes, and it pops
\* an entry with more stops than recharge nodes only where the value is
\* None.  (There the search with no cap at all has no value: entries over
\* every cap are reached.)
C23_RaisedCapSameOutcome ==
    /\ SameOutcome
    /\ PoppedOverNodes => tr.capped = None

\* C23 witness: the search with the cap raised has returned a route with a
\* counted stop, the route of the call with the cap not raised.
C23_Witness ==
    /\ RaisedReturned
    /\ tr.over >= 1
    /\ tr.result # None
    /\ tr.result[3] >= 1
    /\ tr.capped = tr.result

(***************************************************************************)
(* Claims about segment_crosses_polygon.                                   *)
(***************************************************************************)
\* The number of edges of the polygon that share a point with the segment.
EdgesMet(segment, vertices) ==
    Cardinality({i \in 1..Len(vertices) :
        SegmentsMeet(segment, <<vertices[i], vertices[(i % Len(vertices)) + 1]>>)})

\* C24: segment_crosses_polygon is true if and only if exactly one end of
\* the segment lies strictly inside the polygon, or both ends lie strictly
\* inside and the segment intersects at least two edges; in every other
\* case, both ends outside included, it is false.
C24_CrossesIffOneOrBothInside ==
    PolygonCrossed =>
        LET a_inside == StrictlyInside(geo.segment[1], geo.shape)
            b_inside == StrictlyInside(geo.segment[2], geo.shape)
        IN  geo.crosses[1] <=>
                \/ a_inside # b_inside
                \/ /\ a_inside /\ b_inside
                   /\ EdgesMet(geo.segment, geo.shape.vertices) >= 2

(***************************************************************************)
(* Simulated annealing (metaheuristics/simulated_annealing.py).            *)
(* Scores and costs are the integers of the graph.  Temperatures are       *)
(* Python floats, that is IEEE 754 doubles, and are kept exactly: a double *)
(* is [m |-> mantissa, e |-> exponent] of value m * 2^e, with              *)
(* 2^52 <= m < 2^53, or m = 0 and e = 0.  A mantissa does not fit TLC's    *)
(* integers, so it is a list of digits in base 2^15 = 32768, the least     *)
(* significant first, without leading zero digits (zero is << >>).         *)
(***************************************************************************)

\* evaluate_order: the legs hub -> order -> hub with transfer, the totals
\* accumulated; None as soon as a leg is infeasible.
RECURSIVE evaluate_legs(_, _, _, _, _, _)
evaluate_legs(g, hub, last_node, battery, order, totals) ==
    LET goal == IF order = << >> THEN hub ELSE Head(order)
        result == transfer(g, last_node, goal, battery)
        added == <<totals[1] + result[1], totals[2] + result[2],
                   totals[3] + result[3]>>
    IN  IF result = None THEN None
        ELSE IF order = << >> THEN added
        ELSE evaluate_legs(g, hub, goal, result[4], Tail(order), added)

evaluate_order(g, hub, start_battery, order) ==
    evaluate_legs(g, hub, hub, start_battery, order, <<0, 0, 0>>)

\* The default weights of score_cost.
w_distance == 1
w_risk == 100
w_recharges == 1000

score_cost(cost) == w_distance * cost[1] + w_risk * cost[2] + w_recharges * cost[3]

\* swap_neighbor with the draws i and j (i # j).
swap_neighbor(order, i, j) ==
    IF Len(order) < 2 THEN order
    ELSE [order EXCEPT ![i] = order[j], ![j] = order[i]]

\* The pairs of positions swap_neighbor can draw.
SwapDraws(order) ==
    IF Len(order) < 2 THEN {<<1, 1>>}
    ELSE {d \in (1..Len(order)) \X (1..Len(order)) : d[1] # d[2]}

\* Natural numbers in base 32768.
RECURSIVE BigNorm(_)
BigNorm(a) ==
    IF a = << >> THEN << >>
    ELSE IF a[Len(a)] = 0 THEN BigNorm(SubSeq(a, 1, Len(a) - 1))
    ELSE a

RECURSIVE BigFromInt(_)
BigFromInt(n) ==
    IF n = 0 THEN << >> ELSE <<n % 32768>> \o BigFromInt(n \div 32768)

RECURSIVE BigAddFrom(_, _, _)
BigAddFrom(a, b, carry) ==
    IF a = << >> /\ b = << >> THEN BigFromInt(carry)
    ELSE LET sum == (IF a = << >> THEN 0 ELSE Head(a))
                        + (IF b = << >> THEN 0 ELSE Head(b)) + carry
         IN  <<sum % 32768>>
                \o BigAddFrom(IF a = << >> THEN << >> ELSE Tail(a),
                              IF b = << >> THEN << >> ELSE Tail(b),
                              sum \div 32768)

BigAdd(a, b) == BigAddFrom(a, b, 0)

\* a * k for a digit k.
RECURSIVE BigTimesFrom(_, _, _)
BigTimesFrom(a, k, carry) ==
    IF a = << >> THEN BigFromInt(carry)
    ELSE LET product == Head(a) * k + carry
         IN  <<product % 32768>> \o BigTimesFrom(Tail(a), k, product \div 32768)

BigTimes(a, k) == BigNorm(BigTimesFrom(a, k, 0))

RECURSIVE BigMul(_, _)
BigMul(a, b) ==
    IF b = << >> THEN << >>
    ELSE LET rest == BigMul(a, Tail(b))
         IN  BigAdd(BigTimes(a, Head(b)),
                    IF rest = << >> THEN << >> ELSE <<0>> \o rest)

\* a * 2^n, floor(a / 2^n) and a mod 2^n.
BigShl(a, n) ==
    IF a = << >> THEN << >>
    ELSE [i \in 1..(n \div 15) |-> 0] \o BigTimes(a, 2^(n % 15))

BigShr(a, n) ==
    LET d == SubSeq(a, (n \div 15) + 1, Len(a))
        r == n % 15
    IN  BigNorm([i \in 1..Len(d) |->
                    (d[i] \div 2^r)
                        + (IF i < Len(d) THEN (d[i + 1] % 2^r) * 2^(15 - r)
                           ELSE 0)])

BigLow(a, n) ==
    BigNorm([i \in 1..Min2(Len(a), (n \div 15) + 1) |->
                IF i <= n \div 15 THEN a[i] ELSE a[i] % 2^(n % 15)])

\* The number of binary digits.
RECURSIVE BitLen(_)
BitLen(k) == IF k = 0 THEN 0 ELSE 1 + BitLen(k \div 2)

BigBits(a) == IF a = << >> THEN 0 ELSE 15 * (Len(a) - 1) + BitLen(a[Len(a)])

BigOdd(a) == a # << >> /\ a[1] % 2 = 1

\* -1, 0 or 1 as a < b, a = b or a > b.
BigCmp(a, b) ==
    IF Len(a) # Len(b) THEN (IF Len(a) < Len(b) THEN -1 ELSE 1)
    ELSE LET differ == {i \in 1..Len(a) : a[i] # b[i]}
         IN  IF differ = {} THEN 0
             ELSE LET top == CHOOSE i \in differ : \A j \in differ : j <= i
                  IN  IF a[top] < b[top] THEN -1 ELSE 1

\* The double nearest to n * 2^e, ties to the even mantissa (the rounding
\* of every float operation).
RoundToDouble(n, e) ==
    LET bits == BigBits(n)
        shift == bits - 53
        quotient == BigShr(n, shift)
        half == BigCmp(BigLow(n, shift), BigShl(<<1>>, shift - 1))
        rounded == IF half > 0 \/ (half = 0 /\ BigOdd(quotient))
                   THEN BigAdd(quotient, <<1>>) ELSE quotient
    IN  IF bits = 0 THEN [m |-> << >>, e |-> 0]
        ELSE IF bits <= 53 THEN [m |-> BigShl(n, 53 - bits), e |-> e - (53 - bits)]
        ELSE IF BigBits(rounded) > 53
        THEN [m |-> BigShr(rounded, 1), e |-> e + shift + 1]
        ELSE [m |-> rounded, e |-> e + shift]

\* x + y and x <= y on doubles that are not negative.
DoubleAdd(x, y) ==
    LET e == Min2(x.e, y.e)
    IN  IF x.m = << >> THEN y
        ELSE IF y.m = << >> THEN x
        ELSE RoundToDouble(BigAdd(BigShl(x.m, x.e - e), BigShl(y.m, y.e - e)), e)

DoubleLeq(x, y) ==
    IF x.m = << >> THEN TRUE
    ELSE IF y.m = << >> THEN FALSE
    ELSE IF x.e # y.e THEN x.e < y.e
    ELSE BigCmp(x.m, y.m) <= 0

\* delta / temperature <= bound as floats, for an integer delta > 0 and
\* doubles temperature > 0 and bound > 0: the quotient is rounded to the
\* nearest double, so it is at most bound when the exact quotient is below
\* the middle of bound and the next double, or on it with bound the even
\* one of the two.
QuotientAtMost(delta, temperature, bound) ==
    LET middle == BigAdd(BigTimes(bound.m, 2), <<1>>)
        k == 1 - bound.e - temperature.e
        left == IF k >= 0 THEN BigShl(BigFromInt(delta), k) ELSE BigFromInt(delta)
        right == IF k >= 0 THEN BigMul(middle, temperature.m)
                 ELSE BigShl(BigMul(middle, temperature.m), 0 - k)
        c == BigCmp(left, right)
    IN  c < 0 \/ (c = 0 /\ ~BigOdd(bound.m))

\* The floats 0.0, 10.0 (the default t0), 0.995 (the default alpha,
\* 0x1.fd70a3d70a3d7p-1), 0.001 (0x1.0624dd2f1a9fcp-10) and 20.0.
DoubleZero == [m |-> << >>, e |-> 0]
DefaultT0 == [m |-> <<0, 0, 0, 160>>, e |-> -49]
DefaultAlpha == [m |-> <<9175, 31457, 23592, 254>>, e |-> -53]
Thousandth == [m |-> <<10748, 9699, 2359, 131>>, e |-> -62]
Twenty == [m |-> <<0, 0, 0, 160>>, e |-> -48]

\* The float 1e-12 of l.161 (0x1.19799812dea11p-40).
ColdTemperature == [m |-> <<27153, 603, 24166, 140>>, e |-> -92]

\* math.exp(-x) is positive up to x = 745.1332191019411
\* (0x1.74910d52d3051p+9) and 0.0 from the next double on; it is 1.0 up to
\* x = 2^-54 and less than 1.0 from the next double on.
ExpPositiveUpTo == [m |-> <<12369, 10842, 9283, 186>>, e |-> -43]
ExpOneUpTo == [m |-> <<0, 0, 0, 128>>, e |-> -106]

\* temperature += alpha (l.150 and l.177).
next_temperature(temperature, alpha) == DoubleAdd(temperature, alpha)

\* temperature <= 1e-12 (l.161).
IsCold(temperature) == DoubleLeq(temperature, ColdTemperature)

\* random() < math.exp(-delta / temperature) (l.164) can be true: random()
\* can return 0.0, so it can when the exponential is positive.
CanAccept(delta, temperature) ==
    QuotientAtMost(delta, temperature, ExpPositiveUpTo)

\* random() < math.exp(-delta / temperature) can be false: random() is
\* less than 1.0, so it can when the exponential is less than 1.0.
CanReject(delta, temperature) ==
    ~QuotientAtMost(delta, temperature, ExpOneUpTo)

(***************************************************************************)
(* Specification SpecAnneal: one simulated_annealing call on a graph of    *)
(* three clients around the hub (the edges 1-4 and 2-3 of distance         *)
(* AnnealWeight, 2-4 of distance 1, the others of any distance up to       *)
(* AnnealWeight), with every initial                                       *)
(* order, the alphas 0.001, 0.995 (the default) and 20.0, t0 = 10.0 or 0,  *)
(* and                                                                     *)
(* every outcome of the random draws.                                      *)
(***************************************************************************)
\* The number of iterations of a call.
MaxIterations == 2

\* max_battery of the graphs, and the distances of their edges.
AnnealBattery == 6
AnnealWeight == 2

AnnealNodes == {1, 2, 3, 4}
AnnealClients == <<2, 3, 4>>
AnnealRecharges == {<< >>, <<4>>}
AnnealAlphas == {Thousandth, DefaultAlpha, Twenty}
AnnealT0s == {DoubleZero, DefaultT0}

AnnealGraphs ==
    {[max_battery |-> AnnealBattery, nodes |-> << >>, clients |-> AnnealClients,
      recharges |-> rc, hub |-> 1, forbidden_zones |-> << >>,
      risk_zones |-> << >>, edges |-> TEdges(AnnealNodes, wt)] :
        rc \in AnnealRecharges,
        wt \in {w \in [TPairs(AnnealNodes) -> 1..AnnealWeight] :
                    /\ w[<<1, 4>>] = AnnealWeight
                    /\ w[<<2, 3>>] = AnnealWeight
                    /\ w[<<2, 4>>] = 1}}

InitAnneal ==
    /\ graph \in AnnealGraphs
    /\ \E initial_order \in Perms(graph.clients), alpha \in AnnealAlphas,
          t0 \in AnnealT0s, start_battery \in {AnnealBattery - 1, AnnealBattery} :
            solver = [pc |-> "enter", start_battery |-> start_battery,
                      initial_order |-> initial_order, t0 |-> t0,
                      alpha |-> alpha, iterations |-> MaxIterations]
    /\ tr = Idle
    /\ build = Idle
    /\ dm = Idle
    /\ geo = Idle

\* l.130-135: the initial order is infeasible, the call returns None.
AnnealReturnNone ==
    /\ solver.pc = "enter"
    /\ evaluate_order(graph, graph.hub, solver.start_battery,
                      solver.initial_order) = None
    /\ solver' = [pc |-> "returned", result |-> None]
    /\ UNCHANGED <<graph, tr, build, dm, geo>>

\* l.130-143: the state before the first iteration.
AnnealEnter ==
    /\ solver.pc = "enter"
    /\ LET cost == evaluate_order(graph, graph.hub, solver.start_battery,
                                  solver.initial_order)
       IN  /\ cost # None
           /\ solver' = [pc |-> "loop", start_battery |-> solver.start_battery,
                         alpha |-> solver.alpha, iterations |-> solver.iterations,
                         iter |-> 0, current_order |-> solver.initial_order,
                         current_cost |-> cost, current_score |-> score_cost(cost),
                         best_order |-> solver.initial_order, best_cost |-> cost,
                         best_score |-> score_cost(cost),
                         temperature |-> solver.t0, before |-> solver.t0,
                         last |-> "none"]
    /\ UNCHANGED <<graph, tr, build, dm, geo>>

\* The candidate of an iteration with draw d, and its cost.
Candidate(d) == swap_neighbor(solver.current_order, d[1], d[2])
CandidateCost(d) ==
    evaluate_order(graph, graph.hub, solver.start_battery, Candidate(d))

\* The end of an iteration that leaves the current order alone.
AnnealKeep(kind) ==
    solver' = [solver EXCEPT !.iter = @ + 1, !.before = solver.temperature,
                             !.temperature = next_temperature(@, solver.alpha),
                             !.last = kind]

\* The end of an iteration that accepts the candidate (l.167-177).
AnnealTake(d, cost, kind) ==
    LET better == score_cost(cost) < solver.best_score
    IN  solver' = [solver EXCEPT
                      !.iter = @ + 1, !.before = solver.temperature,
                      !.temperature = next_temperature(@, solver.alpha),
                      !.last = kind,
                      !.current_order = Candidate(d),
                      !.current_cost = cost,
                      !.current_score = score_cost(cost),
                      !.best_order = IF better THEN Candidate(d) ELSE @,
                      !.best_cost = IF better THEN cost ELSE @,
                      !.best_score = IF better THEN score_cost(cost) ELSE @]

Iterating == solver.pc = "loop" /\ solver.iter < solver.iterations

\* l.146-151: the candidate is infeasible.
AnnealInfeasible ==
    /\ Iterating
    /\ \E d \in SwapDraws(solver.current_order) :
            /\ CandidateCost(d) = None
            /\ AnnealKeep("infeasible")
    /\ UNCHANGED <<graph, tr, build, dm, geo>>

\* l.157-158: the candidate is no worse and is accepted.
AnnealImprove ==
    /\ Iterating
    /\ \E d \in SwapDraws(solver.current_order) :
            LET cost == CandidateCost(d)
            IN  /\ cost # None
                /\ score_cost(cost) - solver.current_score <= 0
                /\ AnnealTake(d, cost, "accepted")
    /\ UNCHANGED <<graph, tr, build, dm, geo>>

\* l.161-162: a worse candidate at temperature <= 1e-12 is rejected.
AnnealCold ==
    /\ Iterating
    /\ \E d \in SwapDraws(solver.current_order) :
            LET cost == CandidateCost(d)
            IN  /\ cost # None
                /\ score_cost(cost) - solver.current_score > 0
                /\ IsCold(solver.temperature)
                /\ AnnealKeep("rejected")
    /\ UNCHANGED <<graph, tr, build, dm, geo>>

\* l.164: a worse candidate is accepted by the random draw.
AnnealAccept ==
    /\ Iterating
    /\ \E d \in SwapDraws(solver.current_order) :
            LET cost == CandidateCost(d)
            IN  /\ ~IsCold(solver.temperature)
                /\ cost # None
                /\ score_cost(cost) - solver.current_score > 0
                /\ CanAccept(score_cost(cost) - solver.current_score,
                             solver.temperature)
                /\ AnnealTake(d, cost, "accepted")
    /\ UNCHANGED <<graph, tr, build, dm, geo>>

\* l.164: a worse candidate is rejected by the random draw.
AnnealReject ==
    /\ Iterating
    /\ \E d \in SwapDraws(solver.current_order) :
            LET cost == CandidateCost(d)
            IN  /\ ~IsCold(solver.temperature)
                /\ cost # None
                /\ score_cost(cost) - solver.current_score > 0
                /\ CanReject(score_cost(cost) - solver.current_score,
                             solver.temperature)
                /\ AnnealKeep("rejected")
    /\ UNCHANGED <<graph, tr, build, dm, geo>>

\* l.180: the loop is over, the best order and its cost are returned.
AnnealReturn ==
    /\ solver.pc = "loop"
    /\ solver.iter = solver.iterations
    /\ solver' = [pc |-> "returned",
                  result |-> <<solver.best_order, solver.best_cost>>]
    /\ UNCHANGED <<graph, tr, build, dm, geo>>

NextAnneal ==
    \/ AnnealReturnNone
    \/ AnnealEnter
    \/ AnnealInfeasible
    \/ AnnealImprove
    \/ AnnealCold
    \/ AnnealAccept
    \/ AnnealReject
    \/ AnnealReturn

SpecAnneal == InitAnneal /\ [][NextAnneal]_vars

\* An iteration has just ended.
Iterated == solver.pc = "loop" /\ solver.iter > 0

\* C25 (as claimed): in simulated_annealing the temperature after each
\* iteration, whether the candidate was infeasible, accepted or rejected,
\* is no greater than the temperature before it, for the default and any
\* positive alpha.
C25_TemperatureNeverIncreases ==
    Iterated => DoubleLeq(solver.temperature, solver.before)

(***************************************************************************)
(* Claims about the complete solutions of the solver.                      *)
(***************************************************************************)
\* No solution of the list is dominated by another one of the list.
SolutionsAntichain(solutions) ==
    \A i, j \in 1..Len(solutions) :
        ~CostDominates(solutions[i][2], solutions[j][2])

\* C26: at every point of a solve call, and in every list solve returns, no
\* stored complete solution is dominated on (distance, risk, recharges) by
\* another stored complete solution.
C26_StoredSolutionsNonDominated ==
    solver.pc # "idle" =>
        /\ SolutionsAntichain(solver.best_solutions)
        /\ \A k \in 1..Len(solver.returned) :
                SolutionsAntichain(solver.returned[k])

\* C26 witness: solve has returned a list with two solutions of different
\* costs, neither dominating the other.
C26_Witness ==
    /\ SolveReturned
    /\ \E i, j \in 1..Len(solver.best_solutions) :
            /\ solver.best_solutions[i][2] # solver.best_solutions[j][2]
            /\ ~CostDominates(solver.best_solutions[i][2],
                              solver.best_solutions[j][2])
            /\ ~CostDominates(solver.best_solutions[j][2],
                              solver.best_solutions[i][2])

\* The order visits every client exactly once and nothing else.
IsPermutationOfClients(order) ==
    /\ Len(order) = Len(graph.clients)
    /\ SeqSet(order) = SeqSet(graph.clients)
    /\ \A i, j \in 1..Len(order) : i # j => order[i] # order[j]

\* The visited set of a _bb call is the set of its order, without repeats.
VisitedIsOrder(c) ==
    /\ c.visited = SeqSet(c.order)
    /\ \A i, j \in 1..Len(c.order) : i # j => c.order[i] # c.order[j]
    /\ c.visited \subseteq SeqSet(graph.clients)

\* C27: every order in a list returned by solve (and every stored order)
\* is a permutation of graph.clients, and in every _bb call the visited
\* set equals the set of elements of the order so far, no client repeated.
C27_OrdersArePermutations ==
    solver.pc # "idle" =>
        /\ \A k \in 1..Len(solver.returned) :
                \A i \in 1..Len(solver.returned[k]) :
                    IsPermutationOfClients(solver.returned[k][i][1])
        /\ \A i \in 1..Len(solver.best_solutions) :
                IsPermutationOfClients(solver.best_solutions[i][1])
        /\ \A n \in 1..Len(solver.calls) : VisitedIsOrder(solver.calls[n])

\* C27 witness: a solve call has returned a tour that is not the list of
\* clients itself, and in a further call a _bb call with two clients
\* visited is about to be entered.
C27_Witness ==
    /\ solver.pc = "running"
    /\ solver.returned # << >>
    /\ \E i \in 1..Len(solver.returned[1]) :
            solver.returned[1][i][1] # graph.clients
    /\ solver.calls # << >>
    /\ Len(Head(solver.calls).order) = 2

\* C28: for every (order, cost) in the list solve(start_battery) returns,
\* the order is feasible and cost is the cost of evaluating the order leg
\* by leg with transfer, from the hub with start_battery and back to the
\* hub: evaluate_order(graph, hub, start_battery, order) is not None and
\* equals cost.
C28_ReturnedCostIsEvaluatedCost ==
    SolveReturned =>
        \A i \in 1..Len(solver.best_solutions) :
            LET evaluated == evaluate_order(graph, graph.hub,
                                 solver.start_battery,
                                 solver.best_solutions[i][1])
            IN  /\ evaluated # None
                /\ evaluated = solver.best_solutions[i][2]

\* C28 witness: solve, started below max_battery, has returned a tour that
\* uses a recharge stop and carries risk.
C28_Witness ==
    /\ SolveReturned
    /\ solver.start_battery < graph.max_battery
    /\ \E i \in 1..Len(solver.best_solutions) :
            /\ solver.best_solutions[i][2][3] > 0
            /\ solver.best_solutions[i][2][2] > 0

=============================================================================
